---- MODULE Spec2Model ----
(***************************************************************************)
(* State-machine model of the Hopalong simulation controller               *)
(* (src/src/hopalong.ts): the particle-set registry, the frame step, the   *)
(* timer-driven orbit regeneration and the settings operations.            *)
(*                                                                         *)
(* Numbers.  Positions and speeds are fixed-point numbers with             *)
(* denominator FP (one world unit = FP model units), so that the quarter   *)
(* steps of the speed and the sevenths of the default subset spacing are   *)
(* exact.  Rotations are fixed-point numbers with denominator RFP.         *)
(*                                                                         *)
(* Random data.  The result of a Math.random driven generation (the orbit  *)
(* parameters with the points computed from them, the hue of a subset) is  *)
(* a token: a number that differs from every token still held by the       *)
(* program.  A displayed geometry is a copy of the subset's vertices       *)
(* (BufferGeometry.setFromPoints copies the coordinates into a new         *)
(* buffer), so it is the token of the data it was built from.              *)
(***************************************************************************)
EXTENDS Integers, Sequences, FiniteSets, TLC

\* ------------------------------------------------------------------ bounds
MaxLevels == 2
MaxSubsets == 2
MaxPointSteps == 1
MaxFrames == 4
MaxConfigFrames == 2
MaxRemoved == 3
MaxDefaultSteps == 1
MaxDefaultRemoved == 13
MaxSpeedSteps == 1
MaxRotationSteps == 1
MaxFovSteps == 1
MaxCameraFrames == 6
MaxControllerLoops == 1
MaxOrbitPoints == 3
MaxPendingLoops == 2

\* --------------------------------------------------------------- constants
FP == 4 * 7
RFP == 10 * 1000

SCALE_FACTOR == 1500 * FP
CAMERA_BOUND == 200 * FP
LEVEL_DEPTH == 600 * FP

DEFAULT_SPEED == 8 * FP
DEFAULT_ROTATION_SPEED == (5 * RFP) \div 1000
DEFAULT_FOV == 60
DEFAULT_POINTS_SUBSET == 4000
DEFAULT_SUBSETS == 7
DEFAULT_LEVELS == 7

SPEED_DELTA == (25 * FP) \div 100
SPEED_DELTA_EXTRA == SPEED_DELTA * 4
ROTATION_DELTA == (5 * RFP) \div 10000
ROTATION_DELTA_EXTRA == ROTATION_DELTA * 4
POINTS_DELTA == 1000
FOV_DELTA == 2

\* ------------------------------------------------------------------- state
VARIABLES
  speed,               \* this.speed
  rotationSpeed,       \* this.rotationSpeed
  numPointsSubset,     \* this.numPointsSubset
  numSubsets,          \* this.numSubsets
  numLevels,           \* this.numLevels
  mouseLocked,         \* this.mouseLocked
  controllerConnected, \* this.controllerConnected
  mouseX,              \* this.mouseX
  mouseY,              \* this.mouseY
  windowHalfX,         \* this.windowHalfX
  windowHalfY,         \* this.windowHalfY
  camera,              \* this.camera: position x, y, z and fov
  orbitParams,         \* this.orbitParams: the token of the last parameter draw
  orbit,               \* this.orbit.subsets: per subset the staged data
  hueValues,           \* this.hueValues: per subset the staged hue
  particleSets,        \* this.particleSets: the tracked particle sets
  scene,               \* this.scene.children: the drawables in the scene
  nextId,              \* identity of the next Points object created
  frame,               \* frames rendered (renderer.info.render.frame)
  destroyed,           \* this.destroyed
  updateInterval,      \* the interval of this.updateIntervalKey is running
  animationRequests,   \* requested animate callbacks that have not run yet
  hideCursor,          \* document.body has the class hideCursor
  controllerRequests,  \* requested controllerLoop callbacks that have not run yet
  settingsUpdates,     \* the onSettingsUpdate calls of the latest handler
  last,                \* the latest handler and its arguments
  pre                  \* the state the latest handler started from

vars == <<speed, rotationSpeed, numPointsSubset, numSubsets, numLevels,
          mouseLocked, controllerConnected, mouseX, mouseY, windowHalfX,
          windowHalfY, camera,
          orbitParams, orbit, hueValues, particleSets, scene, nextId, frame,
          destroyed, updateInterval, animationRequests, hideCursor,
          controllerRequests, settingsUpdates, last, pre>>

\* The Hopalong object as one record; the handlers are operators on it.
this ==
  [speed |-> speed, rotationSpeed |-> rotationSpeed,
   numPointsSubset |-> numPointsSubset, numSubsets |-> numSubsets,
   numLevels |-> numLevels, mouseLocked |-> mouseLocked,
   controllerConnected |-> controllerConnected,
   mouseX |-> mouseX, mouseY |-> mouseY, windowHalfX |-> windowHalfX,
   windowHalfY |-> windowHalfY, camera |-> camera,
   orbitParams |-> orbitParams, orbit |-> orbit, hueValues |-> hueValues,
   particleSets |-> particleSets, scene |-> scene, nextId |-> nextId,
   frame |-> frame, destroyed |-> destroyed,
   updateInterval |-> updateInterval,
   animationRequests |-> animationRequests, hideCursor |-> hideCursor,
   controllerRequests |-> controllerRequests,
   settingsUpdates |-> settingsUpdates]

\* ----------------------------------------------------------------- helpers
\* An optional argument (a field of a Partial<...>): absent, or one value.
Absent == << >>
Some(v) == <<v>>
Defined(o) == o # Absent

\* JavaScript's  o || d  on an optional number: undefined and 0 are falsy.
OrElse(o, d) == IF o = Absent THEN d ELSE IF o[1] = 0 THEN d ELSE o[1]

\* JavaScript's  o || false  on an optional boolean.
OrFalse(o) == IF o = Absent THEN FALSE ELSE o[1]

\* F applied to the value of e (e is evaluated once).
Let(e, F(_)) == CHOOSE r \in {F(x) : x \in {e}} : TRUE

\* The smallest token from 1 on that is not in Used.
Fresh(Used) ==
  CHOOSE n \in 1..(Cardinality(Used) + 1) :
    /\ n \notin Used
    /\ \A m \in 1..(n - 1) : m \in Used

OrbitTokens(t) ==
  {t.orbitParams}
    \cup {t.orbit[i].gen : i \in DOMAIN t.orbit}
    \cup {t.particleSets[i].geometry.gen : i \in DOMAIN t.particleSets}

HueTokens(t) ==
  {t.hueValues[i].gen : i \in DOMAIN t.hueValues}
    \cup {t.particleSets[i].color.gen : i \in DOMAIN t.particleSets}

\* ----------------------------------------------------------- orbit generator
\* initOrbit: numSubsets fresh arrays of numPointsSubset zeroed points
\* (token 0 is the all-zero data).
initOrbit(t, nSubsets, nPoints) ==
  [t EXCEPT !.orbit =
     [i \in 1..nSubsets |->
        [gen |-> 0, s |-> i - 1, n |-> IF nPoints > 0 THEN nPoints ELSE 0]]]

\* prepareOrbit / shuffleParams: a new random parameter draw.
prepareOrbit(t) == [t EXCEPT !.orbitParams = Fresh(OrbitTokens(t))]

\* generateOrbit: overwrites, in place, the points of the first nSubsets
\* subsets with the orbit of the new parameters.
generateOrbit(t, nSubsets, nPoints) ==
  LET t1 == prepareOrbit(t)
  IN  [t1 EXCEPT !.orbit =
         [i \in DOMAIN t1.orbit |->
            IF i <= nSubsets /\ nPoints > 0
              THEN [t1.orbit[i] EXCEPT !.gen = t1.orbitParams]
              ELSE t1.orbit[i]]]

\* generateHues: a new array of nSubsets random hues.
generateHues(t, nSubsets) ==
  LET h == Fresh(HueTokens(t))
  IN  [t EXCEPT !.hueValues = [i \in 1..nSubsets |-> [gen |-> h, s |-> i - 1]]]

\* Mutant of markAllDirty: the loop stops one particle set short.
markAllDirty_skipsLast(sets) ==
  [i \in DOMAIN sets |->
     IF i < Len(sets) THEN [sets[i] EXCEPT !.needsUpdate = TRUE] ELSE sets[i]]

\* The loop of updateOrbit that marks the particle sets.
markAllDirty(sets) ==
  [i \in DOMAIN sets |-> [sets[i] EXCEPT !.needsUpdate = TRUE]]

\* Mutant of updateOrbit: the new data is shown at once.
updateOrbit_showsAtOnce(t) ==
  LET hues(t1) == generateHues(t1, t1.numSubsets)
      shown(t2, ps) ==
        [ps EXCEPT !.geometry = t2.orbit[ps.mySubset + 1],
                   !.color = t2.hueValues[ps.mySubset + 1],
                   !.needsUpdate = TRUE]
      show(t2) ==
        [t2 EXCEPT !.particleSets = [i \in DOMAIN @ |-> shown(t2, @[i])]]
  IN  Let(Let(generateOrbit(t, t.numSubsets, t.numPointsSubset), hues), show)

\* updateOrbit: the timer's callback, also called by setLevelSubsetCount.
updateOrbit(t) ==
  LET hues(t1) == generateHues(t1, t1.numSubsets)
      mark(t2) == [t2 EXCEPT !.particleSets = markAllDirty(t2.particleSets)]
  IN  Let(Let(generateOrbit(t, t.numSubsets, t.numPointsSubset), hues), mark)

\* ------------------------------------------------------ particle-set registry
\* Mutant of InitialZ: the offset is SCALE_FACTOR, not half of it.
InitialZ_fullScale(level, subset, nSubsets) ==
  (0 - LEVEL_DEPTH * level) - ((subset * LEVEL_DEPTH) \div nSubsets)
    + SCALE_FACTOR

\* The z-position generateParticleSet gives a new set.
InitialZ(level, subset, nSubsets) ==
  (0 - LEVEL_DEPTH * level) - ((subset * LEVEL_DEPTH) \div nSubsets)
    + (SCALE_FACTOR \div 2)

\* generateParticleSet: a new Points object showing a copy of the staged
\* data of its subset in the staged hue, added to the scene and tracked.
generateParticleSet(t, level, subset) ==
  LET particleSet ==
        [myLevel |-> level, mySubset |-> subset, needsUpdate |-> FALSE,
         particles |-> t.nextId,
         geometry |-> t.orbit[subset + 1],
         color |-> t.hueValues[subset + 1],
         z |-> InitialZ(level, subset, t.numSubsets),
         rotation |-> 0]
  IN  [t EXCEPT !.scene = @ \cup {t.nextId},
                !.particleSets = Append(@, particleSet),
                !.nextId = @ + 1]

\* The (level, subset) pairs in the order the nested creation loops of init
\* and setLevelSubsetCount visit them.
LoopPairs(t) ==
  [i \in 1..(t.numLevels * t.numSubsets) |->
     <<(i - 1) \div t.numSubsets, (i - 1) % t.numSubsets>>]

\* generateParticleSet called for pairs[lo], ..., pairs[hi], in this order.
RECURSIVE generateAll(_, _, _, _)
generateAll(t, pairs, lo, hi) ==
  IF lo > hi THEN t
  ELSE IF lo = hi THEN generateParticleSet(t, pairs[lo][1], pairs[lo][2])
  ELSE LET mid == (lo + hi) \div 2
           rest(t1) == generateAll(t1, pairs, mid + 1, hi)
       IN  Let(generateAll(t, pairs, lo, mid), rest)

\* Mutant of createSets: a set is created for every pair, tracked or not.
createSets_ignoresExists(t, exists) ==
  LET all(pairs) == generateAll(t, pairs, 1, Len(pairs))
  IN  Let(LoopPairs(t), all)

\* The nested creation loops of init and setLevelSubsetCount: a particle set
\* is generated for every pair that is not in exists.
createSets(t, exists) ==
  LET missing(pair) == pair \notin exists
      all(pairs) == generateAll(t, pairs, 1, Len(pairs))
  IN  Let(SelectSeq(LoopPairs(t), missing), all)

\* fireSettingsChange / getSettings.
getSettings(t) ==
  [speed |-> t.speed, rotationSpeed |-> t.rotationSpeed,
   mouseLocked |-> t.mouseLocked, cameraFov |-> t.camera.fov,
   levelCount |-> t.numLevels, subsetCount |-> t.numSubsets,
   pointsPerSubset |-> t.numPointsSubset]

fireSettingsChange(t) ==
  [t EXCEPT !.settingsUpdates = Append(@, getSettings(t))]

\* Mutant of keepSet: the subset index may equal the number of subsets.
keepSet_oneSubsetMore(t, ps) ==
  ps.myLevel < t.numLevels /\ ps.mySubset <= t.numSubsets

\* Mutant of keepSet: the subset index is not looked at.
keepSet_levelOnly(t, ps) == ps.myLevel < t.numLevels

\* The filter of setLevelSubsetCount: which particle sets stay.
keepSet(t, ps) == ps.myLevel < t.numLevels /\ ps.mySubset < t.numSubsets

\* Mutant of needsNewOrbit: a new number of points alone regenerates nothing.
needsNewOrbit_subsetOnly(p) == Defined(p.subsetCount)

\* Mutant of needsNewOrbit: a count of 0 is taken as no count.
needsNewOrbit_zeroIsAbsent(p) ==
  OrElse(p.subsetCount, 0) # 0 \/ OrElse(p.pointsPerSubset, 0) # 0

\* The condition under which setLevelSubsetCount regenerates the orbit.
needsNewOrbit(p) == Defined(p.subsetCount) \/ Defined(p.pointsPerSubset)

\* Mutant of reconcile: the sets that stay are rebuilt from the staged data.
reconcile_rebuildsKept(t) ==
  LET keep(ps) == keepSet(t, ps)
      rebuilt(ps) == [ps EXCEPT !.geometry = t.orbit[ps.mySubset + 1],
                                !.color = t.hueValues[ps.mySubset + 1],
                                !.needsUpdate = FALSE]
      stay == SelectSeq(t.particleSets, keep)
      kept == [i \in DOMAIN stay |-> rebuilt(stay[i])]
      exists == {<<kept[i].myLevel, kept[i].mySubset>> : i \in DOMAIN kept}
      removed == {t.particleSets[i].particles :
                    i \in {j \in DOMAIN t.particleSets : ~keep(t.particleSets[j])}}
  IN  createSets([t EXCEPT !.particleSets = kept, !.scene = @ \ removed],
                 exists)

\* Mutant of reconcile: the sets that leave the registry stay in the scene.
reconcile_leavesInScene(t) ==
  LET keep(ps) == keepSet(t, ps)
      kept == SelectSeq(t.particleSets, keep)
      exists == {<<kept[i].myLevel, kept[i].mySubset>> : i \in DOMAIN kept}
  IN  createSets([t EXCEPT !.particleSets = kept], exists)

\* The second half of setLevelSubsetCount: the particle sets out of range
\* leave the registry and the scene, the missing ones are created.
reconcile(t) ==
  LET keep(ps) == keepSet(t, ps)
      kept == SelectSeq(t.particleSets, keep)
      exists == {<<kept[i].myLevel, kept[i].mySubset>> : i \in DOMAIN kept}
      removed == {t.particleSets[i].particles :
                    i \in {j \in DOMAIN t.particleSets : ~keep(t.particleSets[j])}}
  IN  createSets([t EXCEPT !.particleSets = kept, !.scene = @ \ removed],
                 exists)

\* setLevelSubsetCount(p), p a record of optional levelCount, subsetCount
\* and pointsPerSubset.
setLevelSubsetCount(t, p) ==
  LET t1 == [t EXCEPT !.numLevels = OrElse(p.levelCount, @),
                      !.numSubsets = OrElse(p.subsetCount, @),
                      !.numPointsSubset = OrElse(p.pointsPerSubset, @)]
      t2 == IF needsNewOrbit(p)
              THEN updateOrbit(initOrbit(t1, t1.numSubsets, t1.numPointsSubset))
              ELSE t1
      finish(t3) == fireSettingsChange(reconcile(t3))
  IN  Let(t2, finish)

\* ----------------------------------------------------------------- frame step
\* Mutant of easeCamera: the eased coordinate is not clamped.
easeCamera_noClamp(c, target) ==
  IF c >= 0 - CAMERA_BOUND /\ c <= CAMERA_BOUND
    THEN c + ((target - c) * 5) \div 100
    ELSE c

\* One step of the camera easing of render, for one coordinate.
easeCamera(c, target) ==
  IF c >= 0 - CAMERA_BOUND /\ c <= CAMERA_BOUND
    THEN LET moved == c + ((target - c) * 5) \div 100
         IN  IF moved < 0 - CAMERA_BOUND THEN 0 - CAMERA_BOUND
             ELSE IF moved > CAMERA_BOUND THEN CAMERA_BOUND
             ELSE moved
    ELSE c

\* Mutant of renderSet: a dirty set is refreshed whether or not it recycles.
renderSet_refreshesInFlight(t, ps) ==
  LET z1 == ps.z + t.speed
      moved == [ps EXCEPT !.z = z1, !.rotation = @ + t.rotationSpeed]
      placed == IF z1 > t.camera.z
                  THEN [moved EXCEPT !.z = 0 - (t.numLevels - 1) * LEVEL_DEPTH]
                  ELSE moved
  IN  IF ps.needsUpdate
        THEN [placed EXCEPT !.geometry = t.orbit[ps.mySubset + 1],
                            !.color = t.hueValues[ps.mySubset + 1],
                            !.needsUpdate = FALSE]
        ELSE placed

\* Mutant of renderSet: a dirty set that recycles gets the staged geometry
\* and a clear flag, but keeps its colour.
renderSet_keepsColor(t, ps) ==
  LET z1 == ps.z + t.speed
      moved == [ps EXCEPT !.z = z1, !.rotation = @ + t.rotationSpeed]
  IN  IF z1 > t.camera.z
        THEN LET back == [moved EXCEPT !.z = 0 - (t.numLevels - 1) * LEVEL_DEPTH]
             IN  IF ps.needsUpdate
                   THEN [back EXCEPT !.geometry = t.orbit[ps.mySubset + 1],
                                     !.needsUpdate = FALSE]
                   ELSE back
        ELSE moved

\* Mutant of renderSet: a dirty set that recycles gets the staged geometry
\* and colour, but its flag stays set.
renderSet_keepsDirty(t, ps) ==
  LET z1 == ps.z + t.speed
      moved == [ps EXCEPT !.z = z1, !.rotation = @ + t.rotationSpeed]
  IN  IF z1 > t.camera.z
        THEN LET back == [moved EXCEPT !.z = 0 - (t.numLevels - 1) * LEVEL_DEPTH]
             IN  IF ps.needsUpdate
                   THEN [back EXCEPT !.geometry = t.orbit[ps.mySubset + 1],
                                     !.color = t.hueValues[ps.mySubset + 1]]
                   ELSE back
        ELSE moved

\* The body of render's loop, for one particle set.
renderSet(t, ps) ==
  LET z1 == ps.z + t.speed
      moved == [ps EXCEPT !.z = z1, !.rotation = @ + t.rotationSpeed]
  IN  IF z1 > t.camera.z
        THEN LET back == [moved EXCEPT !.z = 0 - (t.numLevels - 1) * LEVEL_DEPTH]
             IN  IF ps.needsUpdate
                   THEN [back EXCEPT !.geometry = t.orbit[ps.mySubset + 1],
                                     !.color = t.hueValues[ps.mySubset + 1],
                                     !.needsUpdate = FALSE]
                   ELSE back
        ELSE moved

\* render: the frame step.
render(t) ==
  LET sets(t1) ==
        [t1 EXCEPT !.particleSets = [i \in DOMAIN @ |-> renderSet(t1, @[i])],
                   !.frame = @ + 1]
  IN  Let([t EXCEPT !.camera.x = easeCamera(@, t.mouseX),
                    !.camera.y = easeCamera(@, 0 - t.mouseY)], sets)

\* ------------------------------------------------------------- construction
\* The browser window the simulation is constructed in, and a small one.
DesktopWindow == [innerWidth |-> 1920 * FP, innerHeight |-> 1080 * FP]
SmallWindow == [innerWidth |-> 40 * FP, innerHeight |-> 30 * FP]

\* onWindowResize, window the browser window after the resize.
onWindowResize(t, window) ==
  [t EXCEPT !.windowHalfX = window.innerWidth \div 2,
            !.windowHalfY = window.innerHeight \div 2]

\* The field initialisers and the assignments of the constructor that come
\* before initOrbit.
newHopalong(settings) ==
  [speed |-> OrElse(settings.speed, DEFAULT_SPEED),
   rotationSpeed |-> OrElse(settings.rotationSpeed, DEFAULT_ROTATION_SPEED),
   numSubsets |-> OrElse(settings.subsetCount, DEFAULT_SUBSETS),
   numLevels |-> OrElse(settings.levelCount, DEFAULT_LEVELS),
   numPointsSubset |-> OrElse(settings.pointsPerSubset, DEFAULT_POINTS_SUBSET),
   mouseLocked |-> OrFalse(settings.mouseLocked),
   controllerConnected |-> FALSE,
   mouseX |-> 0, mouseY |-> 0,
   windowHalfX |-> DesktopWindow.innerWidth \div 2,
   windowHalfY |-> DesktopWindow.innerHeight \div 2,
   camera |-> [x |-> 0, y |-> 0, z |-> 0, fov |-> DEFAULT_FOV],
   orbitParams |-> 0, orbit |-> << >>, hueValues |-> << >>,
   particleSets |-> << >>, scene |-> {}, nextId |-> 1, frame |-> 0,
   destroyed |-> FALSE, updateInterval |-> FALSE, animationRequests |-> 0,
   hideCursor |-> FALSE,
   controllerRequests |-> 0,
   settingsUpdates |-> << >>]

\* init: camera, first orbit and hues, one particle set per (level, subset),
\* and the 3000 ms interval that calls updateOrbit.
init(t) ==
  LET t1 == [t EXCEPT !.camera = [x |-> 0, y |-> 0, z |-> SCALE_FACTOR \div 2,
                                  fov |-> DEFAULT_FOV]]
      t2 == generateOrbit(t1, t1.numSubsets, t1.numPointsSubset)
      t3 == generateHues(t2, t2.numSubsets)
  IN  [onWindowResize(createSets(t3, {}), DesktopWindow)
         EXCEPT !.updateInterval = TRUE]

\* destroy: the interval is cleared and the destroyed flag set.
destroy(t) == [t EXCEPT !.updateInterval = FALSE, !.destroyed = TRUE]

\* Mutant of animate: the destroyed flag is not looked at.
animate_ignoresDestroyed(t) ==
  render([t EXCEPT !.animationRequests = @ + 1])

\* animate: unless the simulation is destroyed, requests the next animation
\* frame and draws this one.
animate(t) ==
  IF t.destroyed
    THEN t
    ELSE render([t EXCEPT !.animationRequests = @ + 1])

\* The browser runs a requested animate callback.
animationFrame(t) == animate([t EXCEPT !.animationRequests = @ - 1])

\* The constructor: its call of animate draws the first frame.
constructor(settings) ==
  LET t0 == newHopalong(settings)
      t1 == initOrbit(t0, t0.numSubsets, t0.numPointsSubset)
  IN  fireSettingsChange(animate(init(t1)))

\* --------------------------------------------------------- settings operations
setCameraFOV(t, fov) == fireSettingsChange([t EXCEPT !.camera.fov = fov])

changeFov(t, delta) == setCameraFOV(t, t.camera.fov + delta)

\* Mutant of changeSpeed: the sum is stored as it is.
changeSpeed_noFloor(t, delta) ==
  fireSettingsChange([t EXCEPT !.speed = @ + delta])

changeSpeed(t, delta) ==
  LET newSpeed == t.speed + delta
  IN  fireSettingsChange([t EXCEPT !.speed = IF newSpeed >= 0 THEN newSpeed ELSE 0])

changeRotationSpeed(t, delta) ==
  fireSettingsChange([t EXCEPT !.rotationSpeed = @ + delta])

\* setMouseLock(locked): toggles when locked is absent.
setMouseLock(t, locked) ==
  fireSettingsChange(
    [t EXCEPT !.mouseLocked = IF Defined(locked) THEN locked[1] ELSE ~@])

\* Mutant of changeLevelSubset: only the level count is passed on.
changeLevelSubset_levelOnly(t, delta) ==
  setLevelSubsetCount(t, [levelCount |-> Some(t.numLevels + delta),
                          subsetCount |-> Absent,
                          pointsPerSubset |-> Absent])

changeLevelSubset(t, delta) ==
  setLevelSubsetCount(t, [levelCount |-> Some(t.numLevels + delta),
                          subsetCount |-> Some(t.numSubsets + delta),
                          pointsPerSubset |-> Absent])

changePointsPerSubset(t, delta) ==
  setLevelSubsetCount(t, [levelCount |-> Absent, subsetCount |-> Absent,
                          pointsPerSubset |-> Some(t.numPointsSubset + delta)])

resetDefaults(t) ==
  LET t1 == [t EXCEPT !.speed = DEFAULT_SPEED,
                      !.rotationSpeed = DEFAULT_ROTATION_SPEED,
                      !.camera.fov = DEFAULT_FOV,
                      !.mouseLocked = FALSE]
  IN  fireSettingsChange(
        setLevelSubsetCount(t1, [levelCount |-> Some(DEFAULT_LEVELS),
                                 subsetCount |-> Some(DEFAULT_SUBSETS),
                                 pointsPerSubset |-> Some(DEFAULT_POINTS_SUBSET)]))

\* Mutant of applySettings: a rotation speed of 0 counts as not given.
applySettings_zeroRotationUnset(t, settings) ==
  LET t1 == [t EXCEPT
               !.speed = IF Defined(settings.speed) THEN settings.speed[1] ELSE @,
               !.rotationSpeed = OrElse(settings.rotationSpeed, @),
               !.mouseLocked = IF Defined(settings.mouseLocked)
                                 THEN settings.mouseLocked[1] ELSE @]
      t2 == IF Defined(settings.cameraFov)
              THEN setCameraFOV(t1, settings.cameraFov[1]) ELSE t1
      advancedSettings == [levelCount |-> settings.levelCount,
                           subsetCount |-> settings.subsetCount,
                           pointsPerSubset |-> settings.pointsPerSubset]
  IN  IF \/ Defined(settings.levelCount)
         \/ Defined(settings.subsetCount)
         \/ Defined(settings.pointsPerSubset)
        THEN setLevelSubsetCount(t2, advancedSettings)
        ELSE t2

\* applySettings(settings), settings a record of the seven optional fields.
applySettings(t, settings) ==
  LET t1 == [t EXCEPT
               !.speed = IF Defined(settings.speed) THEN settings.speed[1] ELSE @,
               !.rotationSpeed = IF Defined(settings.rotationSpeed)
                                   THEN settings.rotationSpeed[1] ELSE @,
               !.mouseLocked = IF Defined(settings.mouseLocked)
                                 THEN settings.mouseLocked[1] ELSE @]
      t2 == IF Defined(settings.cameraFov)
              THEN setCameraFOV(t1, settings.cameraFov[1]) ELSE t1
      advancedSettings == [levelCount |-> settings.levelCount,
                           subsetCount |-> settings.subsetCount,
                           pointsPerSubset |-> settings.pointsPerSubset]
  IN  IF \/ Defined(settings.levelCount)
         \/ Defined(settings.subsetCount)
         \/ Defined(settings.pointsPerSubset)
        THEN setLevelSubsetCount(t2, advancedSettings)
        ELSE t2

\* ------------------------------------------------------------------- gamepad
\* recenterCamera: camera and pointer back to the axis, pointer locked.
recenterCamera(t) ==
  setMouseLock([t EXCEPT !.camera.x = 0, !.camera.y = 0,
                         !.mouseX = 0, !.mouseY = 0], Some(TRUE))

stopMovement(t) == [t EXCEPT !.speed = 0, !.rotationSpeed = 0]

\* initGamepadMode: its last statement requests the first controllerLoop.
initGamepadMode(t) ==
  [recenterCamera(stopMovement([t EXCEPT !.controllerConnected = TRUE]))
     EXCEPT !.controllerRequests = @ + 1]

onControllerConnected(t) ==
  initGamepadMode([t EXCEPT !.controllerConnected = TRUE])

onControllerDisconnected(t) == [t EXCEPT !.controllerConnected = FALSE]

applyMovement(t, movement) ==
  [t EXCEPT !.speed = movement.speed,
            !.rotationSpeed = movement.rotationSpeed,
            !.mouseX = movement.x,
            !.mouseY = movement.y]

\* updateGamepadMovement: nextMovement is what the movement strategy of the
\* gamepad returned for the current movement and the state of the pad.
updateGamepadMovement(t, nextMovement) ==
  fireSettingsChange(applyMovement(t, nextMovement))

\* --------------------------------------------------------------- gamepad.ts
\* Stick offsets are counted in hundredths: AXIS is the offset 1.0.  Speeds
\* are in units of 1/FP, rotation speeds in units of 1/RFP, positions in
\* units of 1/FP pixel, as in the Hopalong object.
AXIS == 100
DEADZONE == AXIS \div 10

\* JavaScript's Infinity and NaN among the numbers of the model.
Infinity == 1073741824
NaN == 0 - Infinity

\* array[i] of a JavaScript array (indices from 0): Absent when i is not an
\* index of the array.
At(array, i) == IF i + 1 \in DOMAIN array THEN Some(array[i + 1]) ELSE Absent

\* An optional number used as a number: undefined becomes NaN.
ToNumber(o) == IF o = Absent THEN NaN ELSE o[1]

\* JavaScript arithmetic: every operation on NaN yields NaN, every comparison
\* with NaN is false.
Negate(v) == IF v = NaN THEN NaN ELSE 0 - v
Plus(v, w) == IF v = NaN \/ w = NaN THEN NaN ELSE v + w
Times(v, w) == IF v = NaN \/ w = NaN THEN NaN ELSE v * w
MathAbs(v) == IF v = NaN THEN NaN ELSE IF v < 0 THEN 0 - v ELSE v
MathSign(v) == IF v = NaN THEN NaN ELSE IF v < 0 THEN -1 ELSE IF v > 0 THEN 1 ELSE 0
MathMin(v, w) == IF v = NaN \/ w = NaN THEN NaN ELSE IF v < w THEN v ELSE w
MathMax(v, w) == IF v = NaN \/ w = NaN THEN NaN ELSE IF v > w THEN v ELSE w
LessThan(v, w) == v # NaN /\ w # NaN /\ v < w

\* The integer square root of n >= 0, between lo and hi.
RECURSIVE sqrtBetween(_, _, _)
sqrtBetween(n, lo, hi) ==
  IF lo >= hi THEN lo
  ELSE LET mid == (lo + hi + 1) \div 2
       IN  IF mid * mid <= n THEN sqrtBetween(n, mid, hi)
           ELSE sqrtBetween(n, lo, mid - 1)

\* Math.sqrt, rounded down to the unit of the model.
MathSqrt(n) ==
  IF n = NaN THEN NaN ELSE IF n < 0 THEN NaN ELSE sqrtBetween(n, 0, 32767)

RECURSIVE twoToThe(_)
twoToThe(n) == IF n <= 0 THEN 1 ELSE 2 * twoToThe(n - 1)

\* clamp(min, target, max); max is Infinity when it is not given.
clamp(min, target, max) == MathMax(min, MathMin(target, max))

\* deadzone(stickOffset) with the default threshold 0.1.
deadzone(stickOffset) ==
  IF LessThan(MathAbs(stickOffset), DEADZONE) THEN 0
  ELSE Plus(stickOffset, 0 - DEADZONE)

\* exponentiate(stickOffset) with the default base 2, the result a speed.
\* The power of the fractional part of the exponent is interpolated linearly.
exponentiate(stickOffset) ==
  IF stickOffset = NaN THEN NaN
  ELSE LET e == MathAbs(stickOffset)
           power == (twoToThe(e \div AXIS) * (AXIS + (e % AXIS)) * FP) \div AXIS
       IN  MathSign(stickOffset) * power

\* magnitude(...axes) of two offsets.
magnitude(h, v) == MathSqrt(Plus(Times(h, h), Times(v, v)))

\* signedSqrt(n) * 10 of an offset n, the result a distance in pixels.
signedSqrt(n) ==
  Times(MathSqrt(Times(MathAbs(n), FP * FP)), MathSign(n))

\* The result of a strategy: the Movement it returned, or threw when it
\* ended in a TypeError.
Returned(movement) == [threw |-> FALSE, movement |-> movement]
Threw == [threw |-> TRUE, movement |-> << >>]

stdGamepadMovementStrategy(bounds, current, gamepad) ==
  LET leftStickHorizontal == deadzone(Negate(ToNumber(At(gamepad.axes, 0))))
      \* lsh / 50, as a rotation speed
      newRotationSpeed == Times(leftStickHorizontal, RFP \div (AXIS * 50))
      leftStickVertical == deadzone(Negate(ToNumber(At(gamepad.axes, 1))))
      leftStickMagnitude == magnitude(leftStickHorizontal, leftStickVertical)
      forwardSpeed ==
        clamp(0, Times(exponentiate(Times(leftStickMagnitude, 4)),
                       MathSign(leftStickVertical)), Infinity)
      rightStickHorizontal == deadzone(ToNumber(At(gamepad.axes, 2)))
      transverseSpeedX == signedSqrt(rightStickHorizontal)
      newX == clamp(0 - bounds.width \div 2, Plus(transverseSpeedX, current.x),
                    bounds.width \div 2)
      rightStickVertical == deadzone(ToNumber(At(gamepad.axes, 3)))
      transverseSpeedY == signedSqrt(rightStickVertical)
      newY == clamp(0 - bounds.height \div 2, Plus(transverseSpeedY, current.y),
                    bounds.height \div 2)
  IN  Returned([speed |-> forwardSpeed, rotationSpeed |-> newRotationSpeed,
                x |-> newX, y |-> newY])

\* The speed of the arcade strategy from its two big buttons.
arcadeSpeed(bigRightPressed, bigLeftPressed) ==
  IF bigRightPressed THEN 8 * FP ELSE IF bigLeftPressed THEN 4 * FP ELSE 2 * FP

\* Mutant of arcadeRotationSpeed: the small right button wins over the left.
arcadeRotationSpeed_rightWins(smallRightPressed, smallLeftPressed) ==
  IF smallRightPressed THEN 0 - (2 * RFP) \div 100
  ELSE IF smallLeftPressed THEN (2 * RFP) \div 100
  ELSE 0

\* The rotation speed of the arcade strategy from its two small buttons.
arcadeRotationSpeed(smallRightPressed, smallLeftPressed) ==
  IF smallRightPressed /\ smallLeftPressed THEN 0
  ELSE IF smallRightPressed THEN 0 - (2 * RFP) \div 100
  ELSE IF smallLeftPressed THEN (2 * RFP) \div 100
  ELSE 0

\* The body of the two arcade strategies: buttons names the four buttons and
\* speedEasterEgg is the factor of the speed when both small buttons are
\* pressed.  Reading .pressed of a button the gamepad does not have throws.
arcadeMovement(buttons, easterEgg, bounds, current, gamepad) ==
  LET bigRightButton == At(gamepad.buttons, buttons.bigRightButtonIndex)
      bigLeftButton == At(gamepad.buttons, buttons.bigLeftButtonIndex)
      smallRightButton == At(gamepad.buttons, buttons.smallRightButtonIndex)
      smallLeftButton == At(gamepad.buttons, buttons.smallLeftButtonIndex)
  IN  IF \/ bigRightButton = Absent
         \/ ~bigRightButton[1].pressed /\ bigLeftButton = Absent
         \/ smallRightButton = Absent
         \/ smallLeftButton = Absent
        THEN Threw
        ELSE
          LET newSpeed == arcadeSpeed(bigRightButton[1].pressed,
                                      bigLeftButton # Absent /\ bigLeftButton[1].pressed)
              newRotationSpeed ==
                arcadeRotationSpeed(smallRightButton[1].pressed,
                                    smallLeftButton[1].pressed)
              speedEasterEgg ==
                IF smallRightButton[1].pressed /\ smallLeftButton[1].pressed
                  THEN easterEgg ELSE 1
              rightStickHorizontal == deadzone(ToNumber(At(gamepad.axes, 0)))
              transverseSpeedX == signedSqrt(rightStickHorizontal)
              newX == clamp(0 - bounds.width \div 2,
                            Plus(transverseSpeedX, current.x), bounds.width \div 2)
              rightStickVertical == deadzone(ToNumber(At(gamepad.axes, 1)))
              transverseSpeedY == signedSqrt(rightStickVertical)
              newY == clamp(0 - bounds.height \div 2,
                            Plus(transverseSpeedY, current.y), bounds.height \div 2)
          IN  Returned([speed |-> newSpeed * speedEasterEgg,
                        rotationSpeed |-> newRotationSpeed,
                        x |-> newX, y |-> newY])

windowsArcadeButtonMapping ==
  [bigRightButtonIndex |-> 1, bigLeftButtonIndex |-> 0,
   smallRightButtonIndex |-> 3, smallLeftButtonIndex |-> 2]

linuxArcadeButtonMapping ==
  [bigRightButtonIndex |-> 0, bigLeftButtonIndex |-> 3,
   smallRightButtonIndex |-> 1, smallLeftButtonIndex |-> 2]

\* The strategy arcadeGamepadMovementStrategyBuilder(buttons) returns.
arcadeGamepadMovementStrategyBuilder(buttons, bounds, current, gamepad) ==
  arcadeMovement(buttons, 4, bounds, current, gamepad)

\* The arcade strategy of the second gamepad.ts, with its buttons fixed.
arcadeGamepadMovementStrategy(bounds, current, gamepad) ==
  arcadeMovement(linuxArcadeButtonMapping, 2, bounds, current, gamepad)

\* The identity strings of the gamepads of the model, and the two strings
\* buildGamepadMovementStrategy looks for in them.
WindowsArcadeId == "SPEEDLINK COMPETITION PRO (Vendor: 0738 Product: 2217)"
LinuxArcadeId ==
  "0738-2217-SPEEDLINK COMPETITION PRO Game Controller for Android"
StandardId == "Xbox 360 Controller (XInput STANDARD GAMEPAD)"
WindowsArcadeMark == "SPEEDLINK COMPETITION PRO (Vendor: "
LinuxArcadeMark == "SPEEDLINK COMPETITION PRO Game Controller for Android"

\* id.includes(mark), for the identity strings of the model.
includes(id, mark) ==
  \/ id = WindowsArcadeId /\ mark = WindowsArcadeMark
  \/ id = LinuxArcadeId /\ mark = LinuxArcadeMark

\* buildGamepadMovementStrategy(gamepad)(bounds, current, gamepad): the
\* strategy chosen for the gamepad, applied.
buildGamepadMovementStrategy(bounds, current, gamepad) ==
  IF includes(gamepad.id, WindowsArcadeMark)
    THEN arcadeGamepadMovementStrategyBuilder(windowsArcadeButtonMapping,
                                              bounds, current, gamepad)
  ELSE IF includes(gamepad.id, LinuxArcadeMark)
    THEN arcadeGamepadMovementStrategyBuilder(linuxArcadeButtonMapping,
                                              bounds, current, gamepad)
  ELSE stdGamepadMovementStrategy(bounds, current, gamepad)

getBounds(t) == [width |-> t.windowHalfX * 2, height |-> t.windowHalfY * 2]

getCurrentMovement(t) ==
  [speed |-> t.speed, rotationSpeed |-> t.rotationSpeed,
   x |-> t.mouseX, y |-> t.mouseY]

\* controllerLoop, run as a requested callback; gamepad is the first entry
\* of navigator.getGamepads(), Absent when there is none.  A strategy that
\* throws ends the callback inside updateGamepadMovement: no movement is
\* applied, no settings change is fired and no further callback is requested.
controllerLoop(t, gamepad) ==
  LET t1 == [t EXCEPT !.controllerRequests = @ - 1]
  IN  IF ~t1.controllerConnected \/ gamepad = Absent THEN t1
      ELSE LET result == buildGamepadMovementStrategy(
                           getBounds(t1), getCurrentMovement(t1), gamepad[1])
           IN  IF result.threw THEN t1
               ELSE [updateGamepadMovement(t1, result.movement)
                       EXCEPT !.controllerRequests = @ + 1]

\* -------------------------------------------------------------------- mouse
\* onDocumentMouseMove(event).
onDocumentMouseMove(t, event) ==
  IF t.mouseLocked
    THEN t
    ELSE [t EXCEPT !.mouseX = event.clientX - t.windowHalfX,
                   !.mouseY = event.clientY - t.windowHalfY]

\* Mutant of onDocumentTouchMove: the lock is not looked at.
onDocumentTouchMove_ignoresLock(t, event) ==
  IF Len(event.touches) = 1
    THEN [t EXCEPT !.mouseX = event.touches[1].pageX - t.windowHalfX,
                   !.mouseY = event.touches[1].pageY - t.windowHalfY]
    ELSE t

\* onDocumentTouchStart(event) and onDocumentTouchMove(event): a touch of
\* one finger is the pointer.
onDocumentTouchStart(t, event) ==
  IF t.mouseLocked
    THEN t
    ELSE IF Len(event.touches) = 1
           THEN [t EXCEPT !.mouseX = event.touches[1].pageX - t.windowHalfX,
                          !.mouseY = event.touches[1].pageY - t.windowHalfY]
           ELSE t

onDocumentTouchMove(t, event) ==
  IF t.mouseLocked
    THEN t
    ELSE IF Len(event.touches) = 1
           THEN [t EXCEPT !.mouseX = event.touches[1].pageX - t.windowHalfX,
                          !.mouseY = event.touches[1].pageY - t.windowHalfY]
           ELSE t

\* ------------------------------------------------------------------ keyboard
\* String.toUpperCase on the one-character keys of the model.
LowerCaseKeys == <<"f", "g", "p", "o", "h", "c", "w", "a", "s", "d", "r", "l", "x">>
UpperCaseKeys == <<"F", "G", "P", "O", "H", "C", "W", "A", "S", "D", "R", "L", "X">>
toUpperCase(key) ==
  IF \E i \in DOMAIN LowerCaseKeys : LowerCaseKeys[i] = key
    THEN UpperCaseKeys[CHOOSE i \in DOMAIN LowerCaseKeys : LowerCaseKeys[i] = key]
    ELSE key

\* The settingsShortcuts table of onKeyDown.
settingsShortcuts(t, key) ==
  CASE key = "F" -> changeFov(t, FOV_DELTA)
    [] key = "G" -> changeFov(t, 0 - FOV_DELTA)
    [] key = "." -> changeLevelSubset(t, 1)
    [] key = "," -> changeLevelSubset(t, -1)
    [] key = "P" -> changePointsPerSubset(t, POINTS_DELTA)
    [] key = "O" -> changePointsPerSubset(t, 0 - POINTS_DELTA)
    [] key = "H" -> [t EXCEPT !.hideCursor = ~@]
    [] key = "C" -> recenterCamera(t)

\* The movementShortcuts table of onKeyDown.
movementShortcuts(t, key) ==
  CASE key = "ArrowUp" -> changeSpeed(t, SPEED_DELTA)
    [] key = "W" -> changeSpeed(t, SPEED_DELTA_EXTRA)
    [] key = "ArrowDown" -> changeSpeed(t, 0 - SPEED_DELTA)
    [] key = "S" -> changeSpeed(t, 0 - SPEED_DELTA_EXTRA)
    [] key = "ArrowLeft" -> changeRotationSpeed(t, ROTATION_DELTA)
    [] key = "A" -> changeRotationSpeed(t, ROTATION_DELTA_EXTRA)
    [] key = "ArrowRight" -> changeRotationSpeed(t, 0 - ROTATION_DELTA)
    [] key = "D" -> changeRotationSpeed(t, 0 - ROTATION_DELTA_EXTRA)
    [] key = "R" -> resetDefaults(t)
    [] key = "L" -> setMouseLock(t, Absent)

SettingsKeys == {"F", "G", ".", ",", "P", "O", "H", "C"}
MovementKeys ==
  {"ArrowUp", "W", "ArrowDown", "S", "ArrowLeft", "A", "ArrowRight", "D",
   "R", "L"}

\* Mutant of onKeyDown: the movement shortcuts work with a controller too.
onKeyDown_ignoresController(t, key) ==
  LET keyNormalised == IF Len(key) = 1 THEN toUpperCase(key) ELSE key
  IN  IF keyNormalised \in SettingsKeys THEN settingsShortcuts(t, keyNormalised)
      ELSE IF keyNormalised \in MovementKeys
        THEN movementShortcuts(t, keyNormalised)
      ELSE t

\* Mutant of onKeyDown: the key is looked up as typed.
onKeyDown_caseSensitive(t, key) ==
  IF key \in SettingsKeys THEN settingsShortcuts(t, key)
  ELSE IF t.controllerConnected THEN t
  ELSE IF key \in MovementKeys THEN movementShortcuts(t, key)
  ELSE t

\* onKeyDown(event), key the event's key.
onKeyDown(t, key) ==
  LET keyNormalised == IF Len(key) = 1 THEN toUpperCase(key) ELSE key
  IN  IF keyNormalised \in SettingsKeys THEN settingsShortcuts(t, keyNormalised)
      ELSE IF t.controllerConnected THEN t
      ELSE IF keyNormalised \in MovementKeys
        THEN movementShortcuts(t, keyNormalised)
      ELSE t

\* ---------------------------------------------------------------- transitions
\* The next state is the record t.
Commit(t) ==
  /\ speed' = t.speed
  /\ rotationSpeed' = t.rotationSpeed
  /\ numPointsSubset' = t.numPointsSubset
  /\ numSubsets' = t.numSubsets
  /\ numLevels' = t.numLevels
  /\ mouseLocked' = t.mouseLocked
  /\ controllerConnected' = t.controllerConnected
  /\ mouseX' = t.mouseX
  /\ mouseY' = t.mouseY
  /\ windowHalfX' = t.windowHalfX
  /\ windowHalfY' = t.windowHalfY
  /\ camera' = t.camera
  /\ orbitParams' = t.orbitParams
  /\ orbit' = t.orbit
  /\ hueValues' = t.hueValues
  /\ particleSets' = t.particleSets
  /\ scene' = t.scene
  /\ nextId' = t.nextId
  /\ frame' = t.frame
  /\ destroyed' = t.destroyed
  /\ updateInterval' = t.updateInterval
  /\ animationRequests' = t.animationRequests
  /\ hideCursor' = t.hideCursor
  /\ controllerRequests' = t.controllerRequests
  /\ settingsUpdates' = t.settingsUpdates

\* The state is the record t.
Start(t) ==
  /\ speed = t.speed
  /\ rotationSpeed = t.rotationSpeed
  /\ numPointsSubset = t.numPointsSubset
  /\ numSubsets = t.numSubsets
  /\ numLevels = t.numLevels
  /\ mouseLocked = t.mouseLocked
  /\ controllerConnected = t.controllerConnected
  /\ mouseX = t.mouseX
  /\ mouseY = t.mouseY
  /\ windowHalfX = t.windowHalfX
  /\ windowHalfY = t.windowHalfY
  /\ camera = t.camera
  /\ orbitParams = t.orbitParams
  /\ orbit = t.orbit
  /\ hueValues = t.hueValues
  /\ particleSets = t.particleSets
  /\ scene = t.scene
  /\ nextId = t.nextId
  /\ frame = t.frame
  /\ destroyed = t.destroyed
  /\ updateInterval = t.updateInterval
  /\ animationRequests = t.animationRequests
  /\ hideCursor = t.hideCursor
  /\ controllerRequests = t.controllerRequests
  /\ settingsUpdates = t.settingsUpdates

\* The state a handler starts from: no onSettingsUpdate call made yet.
Entry == [this EXCEPT !.settingsUpdates = << >>]

\* One handler of a run is observed: last names it and its arguments, pre is
\* the state it started from and settingsUpdates the onSettingsUpdate calls it
\* made.  A run is followed up to its observed handler; the handlers before it
\* leave last quiet and record nothing.
NoArgs == << >>
Quiet == [op |-> "quiet", args |-> NoArgs]
Unobserved == last.op \in {"constructor", "quiet"}

\* A handler named op ran with arguments args and left the state tt.
Ran(op, args, tt) ==
  \E t \in {tt} :
    \/ /\ Commit([t EXCEPT !.settingsUpdates = << >>])
       /\ last' = Quiet
       /\ pre' = NoArgs
    \/ /\ Commit(t)
       /\ last' = [op |-> op, args |-> args]
       /\ pre' = Entry

\* As Ran, for a handler whose run continues only while the simulation stays
\* in the sizes of the model: the handler is observed whatever it left.
RanWithin(op, args, tt, inBounds) ==
  \E t \in {tt} :
    \/ /\ inBounds
       /\ Commit([t EXCEPT !.settingsUpdates = << >>])
       /\ last' = Quiet
       /\ pre' = NoArgs
    \/ /\ Commit(t)
       /\ last' = [op |-> op, args |-> args]
       /\ pre' = Entry

\* Particle sets removed so far: the model stops removing at a bound.
Removed(t) == (t.nextId - 1) - Len(t.particleSets)

\* The inputs the model draws from.
LevelCounts == {Absent} \cup {Some(n) : n \in 0..MaxLevels}
SubsetCounts == {Absent} \cup {Some(n) : n \in 0..MaxSubsets}
PointCounts == {Absent} \cup {Some(n * POINTS_DELTA) : n \in 0..MaxPointSteps}
PointValues ==
  {DEFAULT_POINTS_SUBSET} \cup {n * POINTS_DELTA : n \in 1..MaxPointSteps}
HalfLevel == LEVEL_DEPTH \div 2

\* An animation frame: animate calls render.
Render ==
  /\ Unobserved
  /\ frame < MaxFrames
  /\ animationRequests > 0
  /\ ~destroyed
  /\ Ran("render", NoArgs, animationFrame(Entry))

\* The 3000 ms interval timer fires: updateOrbit.
Timer ==
  /\ Unobserved
  /\ updateInterval
  /\ Ran("updateOrbit", NoArgs, updateOrbit(Entry))

SetLevelSubsetCount ==
  /\ Unobserved
  /\ \E lc \in LevelCounts, sc \in SubsetCounts, pc \in PointCounts :
       LET p == [levelCount |-> lc, subsetCount |-> sc, pointsPerSubset |-> pc]
       IN  \E t \in {setLevelSubsetCount(Entry, p)} :
             /\ Removed(t) <= MaxRemoved
             /\ Ran("setLevelSubsetCount", p, t)

ChangeLevelSubset ==
  /\ Unobserved
  /\ \E delta \in {-1, 1} :
       \E t \in {changeLevelSubset(Entry, delta)} :
         /\ t.numLevels <= MaxLevels
         /\ t.numSubsets <= MaxSubsets
         /\ Removed(t) <= MaxRemoved
         /\ Ran("changeLevelSubset", delta, t)

ChangePointsPerSubset ==
  /\ Unobserved
  /\ \E delta \in {0 - POINTS_DELTA, POINTS_DELTA} :
       \E t \in {changePointsPerSubset(Entry, delta)} :
         /\ t.numPointsSubset \in PointValues
         /\ Ran("changePointsPerSubset", delta, t)

\* new Hopalong({settings, ...}).
Constructed(settings) ==
  /\ Start(constructor(settings))
  /\ last = [op |-> "constructor", args |-> settings]
  /\ pre = newHopalong(settings)

NoSettings ==
  [speed |-> Absent, rotationSpeed |-> Absent, cameraFov |-> Absent,
   mouseLocked |-> Absent, levelCount |-> Absent, subsetCount |-> Absent,
   pointsPerSubset |-> Absent]

\* A simulation of few levels and subsets, at the default speed or at half a
\* level per frame.
Init ==
  \E sp \in {Absent, Some(HalfLevel)}, lc \in 1..MaxLevels, sc \in 1..MaxSubsets :
    Constructed([NoSettings EXCEPT !.speed = sp, !.levelCount = Some(lc),
                                   !.subsetCount = Some(sc),
                                   !.pointsPerSubset = Some(POINTS_DELTA)])

\* The frame step, the regeneration timer and the count shortcuts.
Next ==
  \/ Render
  \/ Timer
  \/ ChangeLevelSubset
  \/ ChangePointsPerSubset

Spec == Init /\ [][Next]_vars

\* ------------------------------------------------------------- configuration
\* A frame of the configuration runs.
ConfigRender ==
  /\ Unobserved
  /\ frame < MaxConfigFrames
  /\ animationRequests > 0
  /\ ~destroyed
  /\ Ran("render", NoArgs, animationFrame(Entry))

\* After an observed setLevelSubsetCount({subsetCount: m}) that shrank the
\* subset count from n to m, the next handler is
\* setLevelSubsetCount({subsetCount: n}); pre stays the state before the
\* shrink.
SetSubsetCountBack ==
  /\ last.op = "setLevelSubsetCount"
  /\ last.args.levelCount = Absent
  /\ last.args.pointsPerSubset = Absent
  /\ numSubsets < pre.numSubsets
  /\ LET p == [levelCount |-> Absent, subsetCount |-> Some(pre.numSubsets),
               pointsPerSubset |-> Absent]
     IN  \E t \in {setLevelSubsetCount(Entry, p)} :
           /\ Commit(t)
           /\ last' = [op |-> "shrinkThenGrow",
                       args |-> [m |-> numSubsets, n |-> pre.numSubsets,
                                 shrunk |-> this]]
           /\ pre' = pre

\* The largest simulation of the model, at half a level per frame and with
\* the default number of points.
InitConfig ==
  Constructed([NoSettings EXCEPT !.speed = Some(HalfLevel),
                                 !.levelCount = Some(MaxLevels),
                                 !.subsetCount = Some(MaxSubsets)])

NextConfig ==
  \/ ConfigRender
  \/ SetLevelSubsetCount
  \/ ChangeLevelSubset
  \/ ChangePointsPerSubset
  \/ SetSubsetCountBack

SpecConfig == InitConfig /\ [][NextConfig]_vars

\* ------------------------------------------------------------------ defaults
\* The , and . shortcuts at the default size: the counts stay within
\* MaxDefaultSteps below the defaults.
DefaultChangeLevelSubset ==
  /\ Unobserved
  /\ \E delta \in {-1, 1} :
       /\ numLevels + delta \in (DEFAULT_LEVELS - MaxDefaultSteps)..DEFAULT_LEVELS
       /\ numSubsets + delta \in (DEFAULT_SUBSETS - MaxDefaultSteps)..DEFAULT_SUBSETS
       /\ \E t \in {changeLevelSubset(Entry, delta)} :
            /\ Removed(t) <= MaxDefaultRemoved
            /\ Ran("changeLevelSubset", delta, t)

\* new Hopalong({}) : 7 levels, 7 subsets, 4000 points per subset.
InitDefault == Constructed(NoSettings)

NextDefault ==
  \/ Render
  \/ Timer
  \/ DefaultChangeLevelSubset

SpecDefault == InitDefault /\ [][NextDefault]_vars

\* ------------------------------------------------------------------ settings
\* The speeds, rotation speeds and fields of view the settings runs stay in.
SpeedValues == {n * SPEED_DELTA : n \in 0..MaxSpeedSteps}
RotationValues ==
  {DEFAULT_ROTATION_SPEED + n * ROTATION_DELTA :
     n \in (0 - MaxRotationSteps)..MaxRotationSteps}
FovValues ==
  {DEFAULT_FOV + n * FOV_DELTA : n \in (0 - MaxFovSteps)..MaxFovSteps}

\* The arrow keys and W / S.
ChangeSpeed ==
  /\ Unobserved
  /\ \E delta \in {SPEED_DELTA, 0 - SPEED_DELTA,
                   SPEED_DELTA_EXTRA, 0 - SPEED_DELTA_EXTRA} :
       \E t \in {changeSpeed(Entry, delta)} :
         /\ t.speed \in SpeedValues
         /\ Ran("changeSpeed", delta, t)

\* The arrow keys and A / D.
ChangeRotationSpeed ==
  /\ Unobserved
  /\ \E delta \in {ROTATION_DELTA, 0 - ROTATION_DELTA,
                   ROTATION_DELTA_EXTRA, 0 - ROTATION_DELTA_EXTRA} :
       \E t \in {changeRotationSpeed(Entry, delta)} :
         /\ t.rotationSpeed \in RotationValues
         /\ Ran("changeRotationSpeed", delta, t)

\* The F and G keys.
ChangeFov ==
  /\ Unobserved
  /\ \E delta \in {FOV_DELTA, 0 - FOV_DELTA} :
       \E t \in {changeFov(Entry, delta)} :
         /\ t.camera.fov \in FovValues
         /\ Ran("changeFov", delta, t)

SetMouseLock ==
  /\ Unobserved
  /\ \E locked \in {Absent, Some(TRUE), Some(FALSE)} :
       Ran("setMouseLock", locked, setMouseLock(Entry, locked))

\* setLevelSubsetCount with the largest level count, the largest subset
\* count, both or neither.
SetCounts ==
  /\ Unobserved
  /\ \E lc \in {Absent, Some(MaxLevels)}, sc \in {Absent, Some(MaxSubsets)} :
       LET p == [levelCount |-> lc, subsetCount |-> sc, pointsPerSubset |-> Absent]
       IN  \E t \in {setLevelSubsetCount(Entry, p)} :
             /\ Removed(t) <= MaxRemoved
             /\ Ran("setLevelSubsetCount", p, t)

\* The R key.
ResetDefaults ==
  /\ Unobserved
  /\ \E t \in {resetDefaults(Entry)} :
       /\ Removed(t) <= MaxRemoved
       /\ Ran("resetDefaults", NoArgs, t)

\* The settings records applySettings is called with.
SettingsInputs ==
  [speed : {Absent, Some(0)},
   rotationSpeed : {Absent, Some(0)},
   cameraFov : {Absent, Some(DEFAULT_FOV + FOV_DELTA)},
   mouseLocked : {Absent, Some(TRUE)},
   levelCount : {Absent, Some(MaxLevels)},
   subsetCount : {Absent},
   pointsPerSubset : {Absent}]

ApplySettings ==
  /\ Unobserved
  /\ \E settings \in SettingsInputs :
       \E t \in {applySettings(Entry, settings)} :
         /\ Removed(t) <= MaxRemoved
         /\ Ran("applySettings", settings, t)

\* The gamepadconnected and gamepaddisconnected events.
OnControllerConnected ==
  /\ Unobserved
  /\ ~controllerConnected
  /\ controllerRequests < MaxControllerLoops
  /\ Ran("onControllerConnected", NoArgs, onControllerConnected(Entry))

OnControllerDisconnected ==
  /\ Unobserved
  /\ controllerConnected
  /\ Ran("onControllerDisconnected", NoArgs, onControllerDisconnected(Entry))

\* The movements a gamepad strategy returns.
Movements ==
  [speed : {0, SPEED_DELTA},
   rotationSpeed : {DEFAULT_ROTATION_SPEED},
   x : {CAMERA_BOUND},
   y : {0}]

\* controllerLoop with a gamepad present: updateGamepadMovement, and the next
\* controllerLoop is requested.
ControllerLoop ==
  /\ Unobserved
  /\ controllerRequests > 0
  /\ controllerConnected
  /\ \E nextMovement \in Movements :
       Ran("updateGamepadMovement", nextMovement,
           updateGamepadMovement(Entry, nextMovement))

\* controllerLoop after the controller was disconnected: it returns at once
\* and requests nothing.
ControllerLoopEnds ==
  /\ Unobserved
  /\ controllerRequests > 0
  /\ ~controllerConnected
  /\ Ran("controllerLoop", NoArgs,
         [Entry EXCEPT !.controllerRequests = @ - 1])

\* One level of one subset, moving slowly.
InitSettings ==
  Constructed([NoSettings EXCEPT !.speed = Some(SPEED_DELTA),
                                 !.levelCount = Some(1),
                                 !.subsetCount = Some(1),
                                 !.pointsPerSubset = Some(POINTS_DELTA)])

NextSettings ==
  \/ ChangeSpeed
  \/ ChangeRotationSpeed
  \/ ChangeFov
  \/ SetMouseLock
  \/ SetCounts
  \/ ResetDefaults
  \/ ApplySettings
  \/ OnControllerConnected
  \/ OnControllerDisconnected
  \/ ControllerLoop
  \/ ControllerLoopEnds

SpecSettings == InitSettings /\ [][NextSettings]_vars

\* ------------------------------------------------------------------ keys
\* The keys pressed: the shortcut keys, their lower-case forms and two keys
\* without a shortcut.
Keys ==
  SettingsKeys \cup MovementKeys
    \cup {LowerCaseKeys[i] : i \in DOMAIN LowerCaseKeys}
    \cup {"X", "Escape"}

\* The simulation is of a size the keyboard runs stay in: the settings of the
\* settings runs.  A keydown that leaves this size is observed, and the run
\* ends with it.
InKeyBounds(t) ==
  /\ t.speed \in SpeedValues
  /\ t.rotationSpeed \in RotationValues \cup {0}
  /\ t.camera.fov \in FovValues
  /\ t.numPointsSubset \in PointValues
  /\ t.numLevels <= MaxLevels /\ t.numSubsets <= MaxSubsets
  /\ Removed(t) <= MaxRemoved

OnKeyDown ==
  /\ Unobserved
  /\ \E key \in Keys :
       \E t \in {onKeyDown(Entry, key)} :
         RanWithin("onKeyDown", key, t, InKeyBounds(t))

NextKeys ==
  \/ OnKeyDown
  \/ ChangeSpeed
  \/ OnControllerConnected
  \/ OnControllerDisconnected
  \/ ControllerLoopEnds

SpecKeys == InitSettings /\ [][NextKeys]_vars

\* -------------------------------------------------------------------- camera
\* The pointer positions of the camera runs: two opposite corners of the
\* window and a point near its centre.
MouseEvents ==
  {[clientX |-> 0, clientY |-> 0],
   [clientX |-> 2 * windowHalfX, clientY |-> 2 * windowHalfY],
   [clientX |-> windowHalfX + CAMERA_BOUND \div 2,
    clientY |-> windowHalfY - CAMERA_BOUND]}

OnDocumentMouseMove ==
  /\ Unobserved
  /\ \E event \in MouseEvents :
       /\ event # [clientX |-> mouseX + windowHalfX,
                   clientY |-> mouseY + windowHalfY]
       /\ Ran("onDocumentMouseMove", event, onDocumentMouseMove(Entry, event))

\* The touches of the camera runs: no finger, one finger at a pointer
\* position of the runs, or two fingers.
TouchPoints == {[pageX |-> e.clientX, pageY |-> e.clientY] : e \in MouseEvents}
TouchEvents ==
  {[touches |-> << >>]}
    \cup {[touches |-> <<p>>] : p \in TouchPoints}
    \cup {[touches |-> <<p, p>>] : p \in TouchPoints}

OnDocumentTouchStart ==
  /\ Unobserved
  /\ \E event \in TouchEvents :
       Ran("onDocumentTouchStart", event, onDocumentTouchStart(Entry, event))

OnDocumentTouchMove ==
  /\ Unobserved
  /\ \E event \in TouchEvents :
       Ran("onDocumentTouchMove", event, onDocumentTouchMove(Entry, event))

\* A frame of the camera runs.
CameraRender ==
  /\ Unobserved
  /\ frame < MaxCameraFrames
  /\ animationRequests > 0
  /\ ~destroyed
  /\ Ran("render", NoArgs, animationFrame(Entry))

\* The C key.
RecenterCamera ==
  /\ Unobserved
  /\ Ran("recenterCamera", NoArgs, recenterCamera(Entry))

\* The L key.
ToggleMouseLock ==
  /\ Unobserved
  /\ Ran("setMouseLock", Absent, setMouseLock(Entry, Absent))

NextCamera ==
  \/ OnDocumentMouseMove
  \/ OnDocumentTouchStart
  \/ OnDocumentTouchMove
  \/ CameraRender
  \/ RecenterCamera
  \/ ToggleMouseLock

SpecCamera == InitSettings /\ [][NextCamera]_vars

\* ------------------------------------------------------------------ teardown
\* A requested animate callback runs, whether the simulation is destroyed
\* or not.
AnimationFrame ==
  /\ Unobserved
  /\ frame < MaxFrames
  /\ animationRequests > 0
  /\ Ran("animate", NoArgs, animationFrame(Entry))

\* The owner calls destroy; nothing keeps it from calling it again.
Destroy ==
  /\ Unobserved
  /\ Ran("destroy", NoArgs, destroy(Entry))

NextTeardown ==
  \/ AnimationFrame
  \/ Timer
  \/ ChangeLevelSubset
  \/ Destroy

SpecTeardown == Init /\ [][NextTeardown]_vars

\* ------------------------------------------------------------------ gamepad
\* The gamepads navigator.getGamepads() reports: three identities, sticks at
\* rest, inside the deadzone, halfway and at the end of their travel, with
\* all four axes or fewer, and four buttons or fewer.
Button(pressed) == [pressed |-> pressed]
AxesStates ==
  {<< >>, <<5>>, <<50, -50>>, <<-50, 100, 0>>,
   <<0, 0, 0, 0>>, <<5, -100, 50, -50>>, <<-5, 9, -9, 5>>,
   <<50, 0, -100, 100>>, <<-100, -50, 100, -100>>}
ButtonStates ==
  {<<Button(a), Button(b), Button(c), Button(d)>> : a, b, c, d \in BOOLEAN}
    \cup {<< >>, <<Button(TRUE)>>, <<Button(FALSE), Button(TRUE)>>,
          <<Button(TRUE), Button(TRUE), Button(TRUE)>>}
Gamepads ==
  [id : {StandardId}, axes : AxesStates,
   buttons : {<< >>, <<Button(FALSE), Button(TRUE)>>}]
    \cup [id : {WindowsArcadeId, LinuxArcadeId},
          axes : {<< >>, <<5>>, <<50, -50>>, <<-100, -50, 100, -100>>},
          buttons : ButtonStates]

\* The pointer of the simulation t has not left the centre of the window;
\* the gamepad runs go on while it has not.
InGamepadBounds(t) ==
  /\ t.mouseX \in {0, NaN}
  /\ t.mouseY \in {0, NaN}

\* A requested controllerLoop callback runs.
GamepadLoop ==
  /\ Unobserved
  /\ controllerRequests > 0
  /\ \E gamepad \in {Absent} \cup {Some(g) : g \in Gamepads} :
       \E t \in {controllerLoop(Entry, gamepad)} :
         RanWithin("controllerLoop", gamepad, t, InGamepadBounds(t))

\* The window is resized.
OnWindowResize ==
  /\ Unobserved
  /\ \E window \in {DesktopWindow, SmallWindow} :
       /\ window.innerWidth # 2 * windowHalfX
       /\ Ran("onWindowResize", window, onWindowResize(Entry, window))

NextGamepad ==
  \/ GamepadLoop
  \/ OnControllerConnected
  \/ OnControllerDisconnected
  \/ OnWindowResize

SpecGamepad == InitSettings /\ [][NextGamepad]_vars

\* ------------------------------------------------------------ orbit numbers
\* The numbers of the orbit generator, in thousandths; a random number is a
\* number of thousandths from 0 to 999.
OFP == 10 * 100
A_MIN == -30 * OFP
A_MAX == 30 * OFP
B_MIN == (2 * OFP) \div 10
B_MAX == (18 * OFP) \div 10
C_MIN == 5 * OFP
C_MAX == 17 * OFP

\* hopalong(x, y, a, b, c); the root is rounded down to a thousandth.
hopalong(x, y, a, b, c) ==
  <<y - MathSqrt(MathAbs((b * x) \div OFP - c) * OFP) * MathSign(x), a - x>>

\* shuffleParams, for the three parameters hopalong uses.
shuffleParams(random) ==
  [a |-> A_MIN + (random.a * (A_MAX - A_MIN)) \div OFP,
   b |-> B_MIN + (random.b * (B_MAX - B_MIN)) \div OFP,
   c |-> C_MIN + (random.c * (C_MAX - C_MIN)) \div OFP]

\* Mutant of trackExtent: a value above the running maximum is not recorded.
trackExtent_minimumOnly(extent, v) ==
  IF v < extent.min THEN [extent EXCEPT !.min = v] ELSE extent

\* The running extent of generateOrbit after the value v:
\* if (v < min) min = v; else if (v > max) max = v.
trackExtent(extent, v) ==
  IF v < extent.min THEN [extent EXCEPT !.min = v]
  ELSE IF v > extent.max THEN [extent EXCEPT !.max = v]
  ELSE extent

\* The inner loop of generateOrbit from iteration i on: o is the orbit so
\* far, s the index of the subset (from 0), x and y the current point.
RECURSIVE iteratePoints(_, _, _, _, _, _, _)
iteratePoints(o, params, s, i, numPoints, x, y) ==
  IF i >= numPoints THEN o
  ELSE LET next == hopalong(x, y, params.a, params.b, params.c)
           o1 == [o EXCEPT !.subsets[s + 1][i + 1] = [x |-> next[1], y |-> next[2]],
                           !.xExtent = trackExtent(@, next[1]),
                           !.yExtent = trackExtent(@, next[2])]
       IN  iteratePoints(o1, params, s, i + 1, numPoints, next[1], next[2])

\* The outer loop of generateOrbit from subset s on; starts holds the two
\* random numbers of each subset's starting point.
RECURSIVE iterateSubsets(_, _, _, _, _, _)
iterateSubsets(o, params, starts, s, numSubs, numPoints) ==
  IF s >= numSubs THEN o
  ELSE LET x == (s * 5 * (OFP \div 2 - starts[s + 1][1])) \div OFP
           y == (s * 5 * (OFP \div 2 - starts[s + 1][2])) \div OFP
       IN  iterateSubsets(iteratePoints(o, params, s, 0, numPoints, x, y),
                          params, starts, s + 1, numSubs, numPoints)

\* The points and extents generateOrbit(numSubs, numPoints) leaves in
\* this.orbit, whose arrays have the lengths given by shape, for the random
\* numbers it draws.
orbitPoints(shape, random, numSubs, numPoints) ==
  LET zeroed == [subsets |-> [s \in DOMAIN shape |->
                                [i \in 1..shape[s].n |-> [x |-> 0, y |-> 0]]],
                 xExtent |-> [min |-> 0, max |-> 0],
                 yExtent |-> [min |-> 0, max |-> 0]]
  IN  iterateSubsets(zeroed, shuffleParams(random), random.starts, 0,
                     numSubs, numPoints)

\* The random numbers of one generateOrbit over numSubs subsets.
RandomNumbers == {0, OFP \div 2, OFP - 1}
Randoms(numSubs) ==
  [a : RandomNumbers, b : {0, OFP - 1}, c : {0, OFP - 1},
   starts : [1..numSubs -> {<<0, OFP - 1>>, <<OFP - 1, 0>>}]]

\* updateOrbit, observed with the numbers it drew and the points it computed.
GenerateOrbit ==
  /\ Unobserved
  /\ updateInterval
  /\ \E t \in {updateOrbit(Entry)} :
       \E random \in Randoms(t.numSubsets) :
         Ran("generateOrbit",
             [random |-> random,
              orbit |-> orbitPoints(t.orbit, random, t.numSubsets, t.numPointsSubset)],
             t)

\* setLevelSubsetCount with a subset count and a number of points, observed
\* in the same way.
SetOrbitCounts ==
  /\ Unobserved
  /\ \E sc \in 1..MaxSubsets, pc \in 1..MaxOrbitPoints :
       \E t \in {setLevelSubsetCount(Entry, [levelCount |-> Absent,
                                            subsetCount |-> Some(sc),
                                            pointsPerSubset |-> Some(pc)])} :
         /\ Removed(t) <= MaxRemoved
         /\ \E random \in Randoms(t.numSubsets) :
              Ran("generateOrbit",
                  [random |-> random,
                   orbit |-> orbitPoints(t.orbit, random, t.numSubsets,
                                         t.numPointsSubset)],
                  t)

\* One level of one subset of a few points.
InitOrbit ==
  Constructed([NoSettings EXCEPT !.levelCount = Some(1),
                                 !.subsetCount = Some(1),
                                 !.pointsPerSubset = Some(MaxOrbitPoints)])

NextOrbit ==
  \/ GenerateOrbit
  \/ SetOrbitCounts

SpecOrbit == InitOrbit /\ [][NextOrbit]_vars

\* ------------------------------------------------------------ polling loops
\* A gamepadconnected event, of a first gamepad, of a gamepad that comes
\* back or of a further gamepad, whether or not a controllerLoop callback is
\* still pending.
GamepadConnected ==
  /\ Unobserved
  /\ controllerRequests < MaxPendingLoops
  /\ Ran("onControllerConnected", NoArgs, onControllerConnected(Entry))

NextLoops ==
  \/ GamepadConnected
  \/ OnControllerDisconnected
  \/ GamepadLoop

SpecLoops == InitSettings /\ [][NextLoops]_vars

\* ------------------------------------------------------------ endless runs
\* Runs that never end, for what the simulation eventually does: every
\* handler is recorded in last and pre and the run goes on after it.  The
\* frame count of the renderer, which no handler reads, is kept up to
\* MaxFrames.
Observed(op, args, tt) ==
  \E t \in {tt} :
    /\ Commit([t EXCEPT !.settingsUpdates = << >>,
                        !.frame = IF @ > MaxFrames THEN MaxFrames ELSE @])
    /\ last' = [op |-> op, args |-> args]
    /\ pre' = Entry

\* The animate callback the browser owes the simulation runs.
LiveRender ==
  /\ animationRequests > 0
  /\ ~destroyed
  /\ Observed("render", NoArgs, animationFrame(Entry))

LiveTimer ==
  /\ updateInterval
  /\ Observed("updateOrbit", NoArgs, updateOrbit(Entry))

LiveChangeLevelSubset ==
  \E delta \in {-1, 1} :
    \E t \in {changeLevelSubset(Entry, delta)} :
      /\ t.numLevels <= MaxLevels
      /\ t.numSubsets <= MaxSubsets
      /\ Removed(t) <= MaxRemoved
      /\ Observed("changeLevelSubset", delta, t)

\* applySettings({speed}): the simulation is stopped or set going again.
LiveApplySpeed ==
  \E sp \in {0, LEVEL_DEPTH} :
    \E settings \in {[NoSettings EXCEPT !.speed = Some(sp)]} :
      Observed("applySettings", settings, applySettings(Entry, settings))

\* The largest simulation of the model at a level per frame, its
\* rotation stopped by applySettings({rotationSpeed: 0}).
InitLive ==
  \E lc \in {MaxLevels}, sc \in {MaxSubsets} :
    \E settings \in {[NoSettings EXCEPT !.speed = Some(LEVEL_DEPTH),
                                        !.levelCount = Some(lc),
                                        !.subsetCount = Some(sc),
                                        !.pointsPerSubset = Some(POINTS_DELTA)]} :
      /\ Start(applySettings([constructor(settings) EXCEPT !.settingsUpdates = << >>],
                             [NoSettings EXCEPT !.rotationSpeed = Some(0)]))
      /\ last = Quiet
      /\ pre = NoArgs

NextLive ==
  \/ LiveRender
  \/ LiveTimer
  \/ LiveChangeLevelSubset
  \/ LiveApplySpeed

\* requestAnimationFrame: animate asks for the next frame before it draws
\* this one, and the browser runs every callback it was asked for.
SpecLive == InitLive /\ [][NextLive]_vars /\ WF_vars(LiveRender)

\* ---------------------------------------------------------------- properties
\* What a particle set shows: its drawable, geometry, colour and placement.
Shown(ps) ==
  [particles |-> ps.particles, geometry |-> ps.geometry, color |-> ps.color,
   z |-> ps.z, rotation |-> ps.rotation]

\* The handlers that call updateOrbit.
Regenerating ==
  \/ last.op \in {"updateOrbit", "changeLevelSubset", "changePointsPerSubset"}
  \/ last.op = "setLevelSubsetCount" /\ needsNewOrbit(last.args)

\* The particle set of the state t that draws the object id.
SetOf(t, id) ==
  t.particleSets[CHOOSE i \in DOMAIN t.particleSets :
                   t.particleSets[i].particles = id]

Ids(t) == {t.particleSets[i].particles : i \in DOMAIN t.particleSets}

\* C1: a frame step advances every tracked particle set's z by speed and its
\* rotation by rotationSpeed; a set whose advanced z is strictly greater than
\* the camera z is put at -(numLevels-1)*LEVEL_DEPTH; a set gets the latest
\* staged data and hue, and its flag cleared, exactly when it recycled while
\* dirty; every other set keeps geometry, colour and flag.
C1_FrameStep ==
  last.op = "render" =>
    /\ Len(particleSets) = Len(pre.particleSets)
    /\ \A i \in DOMAIN particleSets :
         LET a == pre.particleSets[i]
             b == particleSets[i]
             advanced == a.z + pre.speed
             recycled == advanced > pre.camera.z
         IN  /\ b.particles = a.particles
             /\ b.rotation = a.rotation + pre.rotationSpeed
             /\ b.z = IF recycled
                        THEN 0 - (pre.numLevels - 1) * LEVEL_DEPTH
                        ELSE advanced
             /\ IF recycled /\ a.needsUpdate
                  THEN /\ b.geometry = orbit[a.mySubset + 1]
                       /\ b.color = hueValues[a.mySubset + 1]
                       /\ ~b.needsUpdate
                  ELSE /\ b.geometry = a.geometry
                       /\ b.color = a.color
                       /\ b.needsUpdate = a.needsUpdate

\* A frame in which one dirty set recycled and now shows new data, while
\* another dirty set did not recycle.
C1_Witness ==
  /\ last.op = "render"
  /\ \E i, j \in DOMAIN particleSets :
       /\ pre.particleSets[i].needsUpdate
       /\ pre.particleSets[i].z + pre.speed > pre.camera.z
       /\ particleSets[i].geometry # pre.particleSets[i].geometry
       /\ pre.particleSets[j].needsUpdate
       /\ pre.particleSets[j].z + pre.speed <= pre.camera.z
       /\ particleSets[j].needsUpdate

\* C2: a regeneration, by the timer or by a configuration change, changes
\* no tracked particle set's displayed geometry, colour, z or rotation; the
\* timer's regeneration changes nothing but the staged data and the flags.
C2_RegenerationOnlyStages ==
  /\ Regenerating =>
       \A id \in Ids(this) \cap Ids(pre) :
         Shown(SetOf(this, id)) = Shown(SetOf(pre, id))
  /\ last.op = "updateOrbit" =>
       /\ Ids(this) = Ids(pre)
       /\ [this EXCEPT !.orbit = 0, !.orbitParams = 0, !.hueValues = 0,
                       !.particleSets = 0]
            = [pre EXCEPT !.orbit = 0, !.orbitParams = 0, !.hueValues = 0,
                          !.particleSets = 0]

\* The timer fired after frames were drawn: a set that has moved still shows
\* the data of before, which is no longer the staged data.
C2_Witness ==
  /\ last.op = "updateOrbit"
  /\ frame > 0
  /\ orbit # pre.orbit
  /\ \E i \in DOMAIN particleSets :
       /\ particleSets[i].geometry # orbit[particleSets[i].mySubset + 1]
       /\ particleSets[i].rotation # 0

\* C3: every updateOrbit call sets the dirty flag of every particle set
\* tracked at that moment: after the timer all sets are dirty, and after a
\* configuration change that regenerates, every set that was tracked before
\* and still is, is dirty.
C3_AllMarkedDirty ==
  Regenerating =>
    \A id \in Ids(pre) \cap Ids(this) : SetOf(this, id).needsUpdate

\* The timer fired while some sets were clean and some already dirty.
C3_Witness ==
  /\ last.op = "updateOrbit"
  /\ Len(particleSets) > 1
  /\ \E i, j \in DOMAIN pre.particleSets :
       /\ ~pre.particleSets[i].needsUpdate
       /\ pre.particleSets[j].needsUpdate
  /\ \A i \in DOMAIN particleSets : particleSets[i].needsUpdate

\* The handlers that change the configuration of levels, subsets and points.
Configuring ==
  last.op \in {"setLevelSubsetCount", "changeLevelSubset", "changePointsPerSubset"}

\* The handler drew new orbit parameters and hues and marked dirty every
\* particle set that was tracked before and still is.
Regenerated ==
  /\ orbitParams # pre.orbitParams
  /\ \A i \in DOMAIN orbit : orbit[i].n = IF numPointsSubset > 0 THEN numPointsSubset ELSE 0
  /\ Len(orbit) = numSubsets
  /\ Len(hueValues) = numSubsets
  /\ \A id \in Ids(pre) \cap Ids(this) : SetOf(this, id).needsUpdate

\* The handler left the staged data, the hues and the flags alone.
NotRegenerated ==
  /\ orbitParams = pre.orbitParams
  /\ orbit = pre.orbit
  /\ hueValues = pre.hueValues
  /\ \A id \in Ids(pre) \cap Ids(this) :
       SetOf(this, id).needsUpdate = SetOf(pre, id).needsUpdate

\* C4 as stated: a configuration change regenerates the orbit when the
\* subset count or the points per subset changed, and not when only the
\* level count changed.
C4_RegeneratesWhenChanged ==
  last.op = "setLevelSubsetCount" =>
    LET shapeChanged == \/ numSubsets # pre.numSubsets
                        \/ numPointsSubset # pre.numPointsSubset
    IN  /\ shapeChanged => Regenerated
        /\ (numLevels # pre.numLevels /\ ~shapeChanged) => NotRegenerated

\* C4, amended: setLevelSubsetCount regenerates the orbit exactly when the
\* request carries a subset count or a points-per-subset value, whether or
\* not the value differs from the current one; a request that carries only a
\* level count regenerates nothing.
C4_RegeneratesWhenGiven ==
  last.op = "setLevelSubsetCount" =>
    IF Defined(last.args.subsetCount) \/ Defined(last.args.pointsPerSubset)
      THEN Regenerated
      ELSE NotRegenerated

\* The level count was changed by a request that also carried the current
\* subset count: only the level count changed, and the orbit was regenerated.
C4_Witness ==
  /\ last.op = "setLevelSubsetCount"
  /\ numLevels # pre.numLevels
  /\ last.args.subsetCount = Some(pre.numSubsets)
  /\ numSubsets = pre.numSubsets
  /\ numPointsSubset = pre.numPointsSubset
  /\ orbitParams # pre.orbitParams
  /\ \E id \in Ids(pre) \cap Ids(this) :
       SetOf(this, id).needsUpdate /\ ~SetOf(pre, id).needsUpdate

\* C5: after construction and after every configuration change there is
\* exactly one tracked particle set for each (level, subset) pair with
\* 0 <= level < numLevels and 0 <= subset < numSubsets, none outside that
\* range, and the scene holds the drawables of the tracked sets and nothing
\* else: a set that left the registry left the scene.
C5_OneSetPerPair ==
  /\ \A k \in 0..(numLevels - 1), s \in 0..(numSubsets - 1) :
       Cardinality({i \in DOMAIN particleSets :
                      /\ particleSets[i].myLevel = k
                      /\ particleSets[i].mySubset = s}) = 1
  /\ \A i \in DOMAIN particleSets :
       /\ particleSets[i].myLevel \in 0..(numLevels - 1)
       /\ particleSets[i].mySubset \in 0..(numSubsets - 1)
  /\ Cardinality(Ids(this)) = Len(particleSets)
  /\ scene = Ids(this)
  /\ Configuring => (Ids(pre) \ Ids(this)) \cap scene = {}

\* One request both removed a particle set and created one.
C5_Witness ==
  /\ last.op = "setLevelSubsetCount"
  /\ Ids(pre) \ Ids(this) # {}
  /\ Ids(this) \ Ids(pre) # {}
  /\ Ids(this) \cap Ids(pre) # {}

\* C6: a configuration change leaves every existing in-range particle set
\* tracked, with its drawable, geometry, colour, z and rotation as they were.
C6_SurvivorsUntouched ==
  Configuring =>
    \A i \in DOMAIN pre.particleSets :
      LET a == pre.particleSets[i]
      IN  keepSet(this, a) =>
            /\ a.particles \in Ids(this)
            /\ Shown(SetOf(this, a.particles)) = Shown(a)
            /\ SetOf(this, a.particles).myLevel = a.myLevel
            /\ SetOf(this, a.particles).mySubset = a.mySubset

\* A request that regenerated the orbit and created a set, while a set that
\* had already moved stayed where it was with the data it showed.
C6_Witness ==
  /\ last.op = "setLevelSubsetCount"
  /\ orbitParams # pre.orbitParams
  /\ Ids(this) \ Ids(pre) # {}
  /\ \E id \in Ids(pre) \cap Ids(this) :
       /\ SetOf(this, id).rotation # 0
       /\ SetOf(this, id).geometry # orbit[SetOf(this, id).mySubset + 1]

\* C7: setLevelSubsetCount called with the level and subset counts that
\* are already current creates no set and removes none.
C7_SameCountsNoChurn ==
  (/\ last.op = "setLevelSubsetCount"
   /\ numLevels = pre.numLevels
   /\ numSubsets = pre.numSubsets) =>
    /\ scene = pre.scene
    /\ nextId = pre.nextId
    /\ [i \in DOMAIN particleSets |-> particleSets[i].particles]
         = [i \in DOMAIN pre.particleSets |-> pre.particleSets[i].particles]

\* Both current counts were passed explicitly, with several sets tracked.
C7_Witness ==
  /\ last.op = "setLevelSubsetCount"
  /\ last.args.levelCount = Some(pre.numLevels)
  /\ last.args.subsetCount = Some(pre.numSubsets)
  /\ numLevels = pre.numLevels
  /\ numSubsets = pre.numSubsets
  /\ Len(particleSets) > 1

\* C8: after the subset count went from n down to m and back up to n, the
\* sets with subset index below m are the objects they were throughout, and
\* the sets with subset index in [m, n) were removed from registry and scene
\* by the first change and are new objects, created by the second.
C8_ShrinkThenGrow ==
  last.op = "shrinkThenGrow" =>
    LET m == last.args.m
        n == last.args.n
        mid == last.args.shrunk
    IN  /\ mid.numSubsets = m /\ numSubsets = n /\ pre.numSubsets = n
        /\ \A i \in DOMAIN pre.particleSets :
             LET a == pre.particleSets[i]
             IN  IF a.mySubset < m
                   THEN /\ a.particles \in Ids(mid) \cap Ids(this)
                        /\ a.particles \in mid.scene \cap scene
                        /\ SetOf(this, a.particles).mySubset = a.mySubset
                        /\ SetOf(this, a.particles).myLevel = a.myLevel
                   ELSE /\ a.particles \notin Ids(mid) \cup mid.scene
                        /\ a.particles \notin Ids(this) \cup scene
        /\ Ids(mid) \subseteq Ids(pre)
        /\ \A i \in DOMAIN particleSets :
             LET b == particleSets[i]
             IN  IF b.mySubset < m
                   THEN b.particles \in Ids(pre)
                   ELSE /\ b.particles >= mid.nextId
                        /\ b.particles \notin Ids(pre) \cup Ids(mid)
        /\ \A k \in 0..(numLevels - 1), s \in m..(n - 1) :
             \E i \in DOMAIN particleSets :
               particleSets[i].myLevel = k /\ particleSets[i].mySubset = s

\* The subset count went down and back up with sets of both kinds: one that
\* stayed and one that was removed and made anew.
C8_Witness ==
  /\ last.op = "shrinkThenGrow"
  /\ 0 < last.args.m
  /\ last.args.m < last.args.n
  /\ \E i, j \in DOMAIN particleSets :
       /\ particleSets[i].mySubset < last.args.m
       /\ particleSets[i].particles \in Ids(pre)
       /\ particleSets[j].mySubset >= last.args.m
       /\ particleSets[j].particles \notin Ids(pre)

\* changeLevelSubset(-1) was called on a simulation of the default size.
ShrunkFromDefaults ==
  /\ last.op = "changeLevelSubset"
  /\ last.args = -1
  /\ pre.numLevels = DEFAULT_LEVELS
  /\ pre.numSubsets = DEFAULT_SUBSETS
  /\ pre.numPointsSubset = DEFAULT_POINTS_SUBSET
  /\ Len(pre.particleSets) = DEFAULT_LEVELS * DEFAULT_SUBSETS

\* What changeLevelSubset(-1) does to the registry and the scene of a
\* simulation of the default size: 36 sets stay, 13 leave, none is created.
ShrunkTo36 ==
  /\ numLevels = DEFAULT_LEVELS - 1
  /\ numSubsets = DEFAULT_SUBSETS - 1
  /\ Len(particleSets) = (DEFAULT_LEVELS - 1) * (DEFAULT_SUBSETS - 1)
  /\ Ids(this) \subseteq Ids(pre)
  /\ scene = Ids(this)
  /\ Cardinality(pre.scene \ scene)
       = DEFAULT_LEVELS * DEFAULT_SUBSETS
           - (DEFAULT_LEVELS - 1) * (DEFAULT_SUBSETS - 1)
  /\ Cardinality(pre.scene \ scene) = 2 * DEFAULT_LEVELS - 1

\* C9 as stated: from the defaults, changeLevelSubset(-1) leaves 36 tracked
\* sets, removes 13 from the scene, and leaves the orbit unchanged: nothing
\* is regenerated and no set is marked dirty.
C9_ShrinkLeavesOrbit ==
  ShrunkFromDefaults => ShrunkTo36 /\ NotRegenerated

\* C9, amended: from the defaults, changeLevelSubset(-1) leaves 6 x 6 = 36
\* tracked sets and removes 13 from the scene, and it regenerates the orbit:
\* six new staged subsets of 4000 points from new parameters, new hues, and
\* every one of the 36 remaining sets marked dirty while showing what it
\* showed.
C9_ShrinkRegenerates ==
  ShrunkFromDefaults =>
    /\ ShrunkTo36
    /\ numPointsSubset = DEFAULT_POINTS_SUBSET
    /\ Regenerated
    /\ \A i \in DOMAIN orbit : orbit[i].gen = orbitParams
    /\ hueValues # pre.hueValues
    /\ \A i \in DOMAIN particleSets :
         /\ particleSets[i].needsUpdate
         /\ Shown(particleSets[i]) = Shown(SetOf(pre, particleSets[i].particles))

\* The shortcut was used on a simulation of the default size of which no set
\* was dirty: 36 sets are left and they are dirty now.
C9_Witness ==
  /\ ShrunkFromDefaults
  /\ \A i \in DOMAIN pre.particleSets : ~pre.particleSets[i].needsUpdate
  /\ Len(particleSets) = 36
  /\ Cardinality(pre.scene \ scene) = 13
  /\ orbit # pre.orbit
  /\ \A i \in DOMAIN particleSets : particleSets[i].needsUpdate

\* C10: every operation that changes a setting (speed, rotation speed, field
\* of view, mouse lock, level count, subset count, points per subset) calls
\* onSettingsUpdate at least once, and its last call passes the settings in
\* effect after the operation.
C10_EveryMutationNotifies ==
  (~Unobserved /\ last.op # "shrinkThenGrow"
     /\ getSettings(this) # getSettings(pre)) =>
    /\ settingsUpdates # << >>
    /\ settingsUpdates[Len(settingsUpdates)] = getSettings(this)

\* applySettings changed the speed and onSettingsUpdate was never called.
C10_Witness ==
  /\ last.op = "applySettings"
  /\ Defined(last.args.speed)
  /\ speed # pre.speed
  /\ getSettings(this).speed = last.args.speed[1]
  /\ settingsUpdates = << >>

\* C11: once destroy was called the interval that regenerates the orbit is
\* cleared and stays cleared, so updateOrbit is never called by the timer
\* again; at most one animate callback is still requested, and when it runs
\* it finds the destroyed flag set: it changes no particle set, draws no
\* frame and requests no further callback.
C11_TeardownStops ==
  /\ destroyed => ~updateInterval /\ animationRequests \in {0, 1}
  /\ last.op = "updateOrbit" => ~pre.destroyed
  /\ last.op \in {"animate", "updateOrbit", "changeLevelSubset", "destroy"} =>
       (pre.destroyed => destroyed)
  /\ (last.op = "animate" /\ pre.destroyed) =>
       /\ pre.animationRequests = 1
       /\ this = [pre EXCEPT !.animationRequests = 0]

\* The callback requested before destroy ran afterwards, at a moment when a
\* frame step would have recycled and refreshed a dirty particle set.
C11_Witness ==
  /\ last.op = "animate"
  /\ pre.destroyed
  /\ animationRequests = 0
  /\ frame = pre.frame
  /\ \E i \in DOMAIN particleSets :
       /\ particleSets[i].needsUpdate
       /\ particleSets[i].z + speed > camera.z

Max(a, b) == IF a >= b THEN a ELSE b

\* Speeds and deltas changeSpeed is applied to, besides those of the runs.
SpeedSamples == {0, 1, SPEED_DELTA, SPEED_DELTA_EXTRA, DEFAULT_SPEED}
DeltaSamples ==
  {d * sign : d \in {1, SPEED_DELTA, SPEED_DELTA_EXTRA, 2 * DEFAULT_SPEED},
              sign \in {-1, 1}}

\* C12: changeSpeed(delta) sets the speed to max(0, speed + delta), for the
\* calls of the runs and for every sampled speed and delta, so the speed is
\* not negative afterwards.
C12_SpeedFloor ==
  /\ last.op = "changeSpeed" =>
       /\ speed = Max(0, pre.speed + last.args)
       /\ speed >= 0
  /\ \A s \in SpeedSamples, d \in DeltaSamples :
       changeSpeed([this EXCEPT !.speed = s], d).speed = Max(0, s + d)

\* changeSpeed(-0.25) was called at speed 0 and the speed is still 0.
C12_Witness ==
  /\ last.op = "changeSpeed"
  /\ pre.speed = 0
  /\ last.args = 0 - SPEED_DELTA
  /\ speed = 0

InsideBound(c) == c >= 0 - CAMERA_BOUND /\ c <= CAMERA_BOUND

\* The coordinate c after one frame with the given target, as C13 states it.
EasedTowards(c, target) ==
  IF InsideBound(c)
    THEN LET moved == c + ((target - c) * 5) \div 100
         IN  Max(0 - CAMERA_BOUND, IF moved > CAMERA_BOUND THEN CAMERA_BOUND ELSE moved)
    ELSE c

\* Camera coordinates, inside the bound and outside it, and targets.
CoordinateSamples ==
  {0 - 2 * CAMERA_BOUND, (0 - CAMERA_BOUND) - 1, 0 - CAMERA_BOUND, -1, 0, FP,
   CAMERA_BOUND - 1, CAMERA_BOUND, CAMERA_BOUND + 1, 2 * CAMERA_BOUND}
TargetSamples ==
  {0 - windowHalfX, 0 - CAMERA_BOUND, 0, FP, CAMERA_BOUND, windowHalfX,
   100 * CAMERA_BOUND, 0 - 100 * CAMERA_BOUND}

\* C13: in a frame step each camera coordinate that is inside
\* [-CAMERA_BOUND, CAMERA_BOUND] moves 5% of the way to its target (mouseX
\* for x, -mouseY for y) and is clamped to the bound, so the camera of the
\* runs never leaves the bound; a coordinate outside the bound is left as it
\* is by the frame step; recenterCamera puts both coordinates at 0.
C13_CameraEasing ==
  /\ InsideBound(camera.x) /\ InsideBound(camera.y)
  /\ last.op = "render" =>
       /\ camera.x = EasedTowards(pre.camera.x, pre.mouseX)
       /\ camera.y = EasedTowards(pre.camera.y, 0 - pre.mouseY)
  /\ last.op = "recenterCamera" => camera.x = 0 /\ camera.y = 0
  /\ \A c \in CoordinateSamples, target \in TargetSamples :
       /\ easeCamera(c, target) = EasedTowards(c, target)
       /\ InsideBound(c) => InsideBound(easeCamera(c, target))
       /\ ~InsideBound(c) => easeCamera(c, target) = c

\* A frame in which the camera, pulled by a pointer far outside the bound,
\* reached the bound and was clamped to it.
C13_Witness ==
  /\ last.op = "render"
  /\ pre.mouseX > CAMERA_BOUND
  /\ pre.camera.x < CAMERA_BOUND
  /\ pre.camera.x + ((pre.mouseX - pre.camera.x) * 5) \div 100 > CAMERA_BOUND
  /\ camera.x = CAMERA_BOUND
  /\ camera.y < 0

\* The observed handler is a keydown of the shortcut k, typed in either case
\* when k is a single character.
KeyIs(k) ==
  /\ last.op = "onKeyDown"
  /\ \/ last.args = k
     \/ Len(k) = 1 /\ Len(last.args) = 1 /\ toUpperCase(last.args) = k

\* The movement shortcuts and the change each makes: to speed, to rotation.
SpeedShortcuts  ==
  {<<"ArrowUp", SPEED_DELTA>>, <<"ArrowDown", 0 - SPEED_DELTA>>,
   <<"W", SPEED_DELTA_EXTRA>>, <<"S", 0 - SPEED_DELTA_EXTRA>>}
RotationShortcuts ==
  {<<"ArrowLeft", ROTATION_DELTA>>, <<"ArrowRight", 0 - ROTATION_DELTA>>,
   <<"A", ROTATION_DELTA_EXTRA>>, <<"D", 0 - ROTATION_DELTA_EXTRA>>}

\* C14: while a controller is connected a keydown of a movement shortcut
\* (the arrows, W, A, S, D) leaves speed and rotation speed as they were and
\* makes no onSettingsUpdate call; with no controller connected, also after
\* one was disconnected, the key changes its setting and notifies.
C14_ControllerSuppressesKeys ==
  \A shortcut \in SpeedShortcuts \cup RotationShortcuts :
    KeyIs(shortcut[1]) =>
      IF pre.controllerConnected
        THEN /\ speed = pre.speed
             /\ rotationSpeed = pre.rotationSpeed
             /\ settingsUpdates = << >>
        ELSE /\ Len(settingsUpdates) = 1
             /\ shortcut \in SpeedShortcuts =>
                  /\ speed = Max(0, pre.speed + shortcut[2])
                  /\ rotationSpeed = pre.rotationSpeed
             /\ shortcut \in RotationShortcuts =>
                  /\ rotationSpeed = pre.rotationSpeed + shortcut[2]
                  /\ speed = pre.speed

\* S was pressed with a controller connected and the simulation moving, and
\* nothing changed.
C14_Witness ==
  /\ KeyIs("S")
  /\ pre.controllerConnected
  /\ pre.speed > 0
  /\ speed = pre.speed
  /\ settingsUpdates = << >>

\* A was pressed after a controller had stopped the movement and was
\* disconnected, and the rotation started again.
C14_WitnessDisconnected ==
  /\ KeyIs("A")
  /\ ~pre.controllerConnected
  /\ pre.rotationSpeed = 0
  /\ rotationSpeed = ROTATION_DELTA_EXTRA

\* The settings of the simulation t that the shortcuts change.
KeySettings(t) ==
  [speed |-> t.speed, rotationSpeed |-> t.rotationSpeed, fov |-> t.camera.fov,
   mouseLocked |-> t.mouseLocked, levels |-> t.numLevels,
   subsets |-> t.numSubsets, points |-> t.numPointsSubset,
   cameraX |-> t.camera.x, cameraY |-> t.camera.y,
   mouseX |-> t.mouseX, mouseY |-> t.mouseY]

\* A count n changed by d; with staysAtZero a count that would become 0 is
\* left as it was.
CountAfter(n, d, staysAtZero) == IF staysAtZero /\ n + d = 0 THEN n ELSE n + d

\* The settings s after the shortcut k, as the shortcut table states them.
TableEffect(k, s, staysAtZero) ==
  CASE k = "F" -> [s EXCEPT !.fov = @ + FOV_DELTA]
    [] k = "G" -> [s EXCEPT !.fov = @ - FOV_DELTA]
    [] k = "." -> [s EXCEPT !.levels = CountAfter(@, 1, staysAtZero),
                            !.subsets = CountAfter(@, 1, staysAtZero)]
    [] k = "," -> [s EXCEPT !.levels = CountAfter(@, -1, staysAtZero),
                            !.subsets = CountAfter(@, -1, staysAtZero)]
    [] k = "P" -> [s EXCEPT !.points = CountAfter(@, POINTS_DELTA, staysAtZero)]
    [] k = "O" -> [s EXCEPT !.points = CountAfter(@, 0 - POINTS_DELTA, staysAtZero)]
    [] k = "H" -> s
    [] k = "C" -> [s EXCEPT !.cameraX = 0, !.cameraY = 0, !.mouseX = 0,
                            !.mouseY = 0, !.mouseLocked = TRUE]
    [] k = "ArrowUp" -> [s EXCEPT !.speed = Max(0, @ + SPEED_DELTA)]
    [] k = "ArrowDown" -> [s EXCEPT !.speed = Max(0, @ - SPEED_DELTA)]
    [] k = "W" -> [s EXCEPT !.speed = Max(0, @ + SPEED_DELTA_EXTRA)]
    [] k = "S" -> [s EXCEPT !.speed = Max(0, @ - SPEED_DELTA_EXTRA)]
    [] k = "ArrowLeft" -> [s EXCEPT !.rotationSpeed = @ + ROTATION_DELTA]
    [] k = "ArrowRight" -> [s EXCEPT !.rotationSpeed = @ - ROTATION_DELTA]
    [] k = "A" -> [s EXCEPT !.rotationSpeed = @ + ROTATION_DELTA_EXTRA]
    [] k = "D" -> [s EXCEPT !.rotationSpeed = @ - ROTATION_DELTA_EXTRA]
    [] k = "R" -> [s EXCEPT !.speed = 8 * FP, !.rotationSpeed = 5 * (RFP \div 1000),
                            !.fov = 60, !.mouseLocked = FALSE, !.levels = 7,
                            !.subsets = 7, !.points = 4000]
    [] k = "L" -> [s EXCEPT !.mouseLocked = ~@]

TableKeys ==
  {"F", "G", ".", ",", "P", "O", "H", "C", "ArrowUp", "ArrowDown", "W", "S",
   "ArrowLeft", "ArrowRight", "A", "D", "R", "L"}

\* Every keydown with no controller connected has the effect of the table,
\* and a key that is not in the table changes nothing.
KeysFollowTable(staysAtZero) ==
  (last.op = "onKeyDown" /\ ~pre.controllerConnected) =>
    /\ \A k \in TableKeys :
         KeyIs(k) => KeySettings(this) = TableEffect(k, KeySettings(pre), staysAtZero)
    /\ (\A k \in TableKeys : ~KeyIs(k)) => this = pre

\* C15 as stated: with no controller connected each shortcut, typed in either
\* case, changes its setting by the amount of the table (speed not below 0):
\* '.' and ',' change the level and the subset count by +1 and -1, P and O
\* the points per subset by +1000 and -1000.
C15_KeysChangeByDelta == KeysFollowTable(FALSE)

\* C15, amended: with no controller connected each shortcut, typed in either
\* case, has the effect of the table, but a level count, subset count or
\* points-per-subset that the shortcut would bring to 0 stays as it was; a
\* key outside the table changes nothing.
C15_KeysFollowTable == KeysFollowTable(TRUE)

\* ',' was pressed with one level and one subset, and both counts stayed 1.
C15_Witness ==
  /\ KeyIs(",")
  /\ ~pre.controllerConnected
  /\ pre.numLevels = 1 /\ pre.numSubsets = 1
  /\ numLevels = 1 /\ numSubsets = 1

\* The observed handler is a controllerLoop that found a gamepad while a
\* controller was connected: the strategy of the gamepad ran.
StrategyRan ==
  /\ last.op = "controllerLoop"
  /\ pre.controllerConnected
  /\ last.args # Absent

\* The gamepad the strategy ran on.
Pad == last.args[1]

\* The offset v with the deadzone taken out as C16 states it: 0 inside the
\* deadzone, else moved towards 0 by the threshold, the sign kept.
ShiftedTowardsZero(v) ==
  IF v > 0 - DEADZONE /\ v < DEADZONE THEN 0
  ELSE IF v > 0 THEN v - DEADZONE ELSE v + DEADZONE

\* C16: the standard strategy turns the left stick's horizontal offset,
\* negated, into the rotation speed by the deadzone: 0 for an offset inside
\* the deadzone, else the offset moved towards 0 by the threshold, with its
\* sign, divided by 50; axes[0] = 0.05 gives the rotation speed 0.
C16_DeadzoneTowardsZero ==
  (StrategyRan /\ Pad.id = StandardId /\ Len(Pad.axes) >= 1) =>
    /\ rotationSpeed =
         ShiftedTowardsZero(0 - Pad.axes[1]) * (RFP \div (AXIS * 50))
    /\ Pad.axes[1] = 5 => rotationSpeed = 0

\* The standard strategy ran with axes[0] = 0.5: the negated offset -0.5 left
\* the deadzone as -0.6, and the rotation speed is -0.012, not -0.008.
C16_Witness ==
  /\ StrategyRan
  /\ Pad.id = StandardId
  /\ Len(Pad.axes) >= 1
  /\ Pad.axes[1] = 50
  /\ rotationSpeed = 0 - (60 * RFP) \div (AXIS * 50)

\* Inside the deadzone and for positive offsets the deadzone is as stated.
C16_PositiveOffsets ==
  (StrategyRan /\ Pad.id = StandardId /\ Len(Pad.axes) >= 1
     /\ Pad.axes[1] < DEADZONE) =>
    rotationSpeed = ShiftedTowardsZero(0 - Pad.axes[1]) * (RFP \div (AXIS * 50))

\* The axes and the buttons the strategy of the gamepad g reads.
AxesRead(g) == IF g.id = StandardId THEN 4 ELSE 2
ButtonsRead(g) == IF g.id = StandardId THEN 0 ELSE 4

\* The gamepad g reports fewer axes or buttons than its strategy reads.
ReportsFewer(g) == Len(g.axes) < AxesRead(g) \/ Len(g.buttons) < ButtonsRead(g)

\* The gamepad g with every axis it lacks at 0 and every button it lacks
\* not pressed.
Neutral(g) ==
  [g EXCEPT
     !.axes = [i \in 1..Max(4, Len(g.axes)) |->
                 IF i <= Len(g.axes) THEN g.axes[i] ELSE 0],
     !.buttons = [i \in 1..Max(4, Len(g.buttons)) |->
                    IF i <= Len(g.buttons) THEN g.buttons[i] ELSE Button(FALSE)]]

\* C17: a strategy that runs on a gamepad with fewer axes or buttons than it
\* reads does not fail: the movement is applied, the settings change is fired
\* and the next controllerLoop is requested; every field of the movement is
\* an ordinary number; and the movement is the one of the same gamepad with
\* the absent axes at 0 and the absent buttons not pressed.
C17_AbsentInputsAreNeutral ==
  (StrategyRan /\ ReportsFewer(Pad)) =>
    /\ Len(settingsUpdates) = 1
    /\ controllerRequests = pre.controllerRequests
    /\ speed # NaN /\ rotationSpeed # NaN /\ mouseX # NaN /\ mouseY # NaN
    /\ this = controllerLoop(pre, Some(Neutral(Pad)))

\* An arcade strategy ran on a gamepad without buttons: it threw, nothing
\* of the movement changed, no settings change was fired and no further
\* controllerLoop is requested.
C17_Witness ==
  /\ StrategyRan
  /\ Pad.id = LinuxArcadeId
  /\ Pad.buttons = << >>
  /\ this = [pre EXCEPT !.controllerRequests = 0]
  /\ pre.controllerRequests = 1

\* The standard strategy ran on a gamepad with one axis: the speed and the
\* pointer of the simulation are NaN.
C17_WitnessNaN ==
  /\ StrategyRan
  /\ Pad.id = StandardId
  /\ Len(Pad.axes) = 1
  /\ speed = NaN /\ mouseX = NaN /\ mouseY = NaN
  /\ rotationSpeed # NaN

\* On a gamepad with all the axes and buttons its strategy reads, the
\* strategy returns a movement of ordinary numbers inside the window.
C17_CompleteGamepads ==
  (StrategyRan /\ ~ReportsFewer(Pad) /\ pre.mouseX # NaN /\ pre.mouseY # NaN) =>
    /\ Len(settingsUpdates) = 1
    /\ controllerRequests = pre.controllerRequests
    /\ speed >= 0 /\ rotationSpeed # NaN
    /\ mouseX >= 0 - windowHalfX /\ mouseX <= windowHalfX
    /\ mouseY >= 0 - windowHalfY /\ mouseY <= windowHalfY

\* The button mapping of the arcade gamepad g.
MappingOf(g) ==
  IF g.id = WindowsArcadeId THEN windowsArcadeButtonMapping
  ELSE linuxArcadeButtonMapping

\* The movement m is what C18 states for the arcade gamepad g whose four
\* buttons are the ones of the mapping.
ArcadeAsStated(movement, g, mapping) ==
  LET bigRight == g.buttons[mapping.bigRightButtonIndex + 1].pressed
      bigLeft == g.buttons[mapping.bigLeftButtonIndex + 1].pressed
      smallRight == g.buttons[mapping.smallRightButtonIndex + 1].pressed
      smallLeft == g.buttons[mapping.smallLeftButtonIndex + 1].pressed
      tier == IF bigRight THEN 8 * FP ELSE IF bigLeft THEN 4 * FP ELSE 2 * FP
  IN  \A m \in {movement} :
        /\ \E factor \in 1..8 :
             /\ m.speed = tier * factor
             /\ factor > 1 <=> (smallRight /\ smallLeft)
        /\ (smallRight /\ ~smallLeft) => m.rotationSpeed = 0 - (2 * RFP) \div 100
        /\ (smallLeft /\ ~smallRight) => m.rotationSpeed = (2 * RFP) \div 100
        /\ (smallRight <=> smallLeft) => m.rotationSpeed = 0

\* The movement and the window of the simulation.
MovementNow ==
  [speed |-> speed, rotationSpeed |-> rotationSpeed, x |-> mouseX, y |-> mouseY]
WindowNow == [width |-> windowHalfX * 2, height |-> windowHalfY * 2]
FourButtons == {b \in ButtonStates : Len(b) = 4}

\* C18: the arcade strategy sets the speed to 8 with the big right button
\* pressed, else 4 with the big left button pressed, else 2, times a factor
\* that is greater than 1 exactly when both small buttons are pressed, and
\* the rotation speed to -0.02 with only the small right button pressed,
\* +0.02 with only the small left one, 0 with both or neither; so does the
\* arcade strategy of the second gamepad.ts, applied to the movement of
\* every state a run goes on from.
C18_ArcadeTiers ==
  /\ (StrategyRan /\ Pad.id # StandardId /\ Len(Pad.buttons) = 4) =>
       ArcadeAsStated(MovementNow, Pad, MappingOf(Pad))
  /\ Unobserved =>
       \A buttons \in FourButtons :
         LET g == [id |-> LinuxArcadeId, axes |-> <<50, -50>>, buttons |-> buttons]
         IN  \A result \in {arcadeGamepadMovementStrategy(WindowNow, MovementNow, g)} :
               /\ ~result.threw
               /\ ArcadeAsStated(result.movement, g, linuxArcadeButtonMapping)

\* The arcade strategy ran with the big right button and both small buttons
\* pressed: the speed is 8 times the combo factor 4 and the rotation is 0.
C18_Witness ==
  /\ StrategyRan
  /\ Pad.id = WindowsArcadeId
  /\ Pad.buttons = <<Button(FALSE), Button(TRUE), Button(TRUE), Button(TRUE)>>
  /\ speed = 32 * FP
  /\ rotationSpeed = 0

\* The observed handler generated the orbit; Generated is what it left in
\* this.orbit.
OrbitGenerated == last.op = "generateOrbit"
Generated == last.args.orbit

\* The points of the generated orbit.
GeneratedPoints ==
  {Generated.subsets[s][i] :
     s \in DOMAIN Generated.subsets, i \in 1..numPointsSubset}

\* C19: after generateOrbit(S, N) the orbit has S subsets of exactly N points
\* each, every point lies within the stored extents, and the extents include
\* 0 on both axes.
C19_OrbitWithinExtents ==
  OrbitGenerated =>
    /\ Len(Generated.subsets) = numSubsets
    /\ Len(orbit) = numSubsets
    /\ \A s \in 1..numSubsets :
         /\ Len(Generated.subsets[s]) = numPointsSubset
         /\ orbit[s].n = numPointsSubset
    /\ \A point \in GeneratedPoints :
         /\ Generated.xExtent.min <= point.x /\ point.x <= Generated.xExtent.max
         /\ Generated.yExtent.min <= point.y /\ point.y <= Generated.yExtent.max
    /\ Generated.xExtent.min <= 0 /\ 0 <= Generated.xExtent.max
    /\ Generated.yExtent.min <= 0 /\ 0 <= Generated.yExtent.max

\* An orbit of two subsets was generated whose points all lie above 0 on the
\* y axis and reach both sides of 0 on the x axis: the stored yMin is 0, below
\* every point.
C19_Witness ==
  /\ OrbitGenerated
  /\ numSubsets = 2
  /\ numPointsSubset >= 2
  /\ \A point \in GeneratedPoints : point.y > 0
  /\ Generated.yExtent.min = 0
  /\ Generated.yExtent.max > 0
  /\ Generated.xExtent.min < 0
  /\ Generated.xExtent.max > 0

\* The observed handler is a setLevelSubsetCount whose request carries a
\* count of exactly 0.
ZeroRequested ==
  /\ last.op = "setLevelSubsetCount"
  /\ \/ last.args.levelCount = Some(0)
     \/ last.args.subsetCount = Some(0)
     \/ last.args.pointsPerSubset = Some(0)

\* The optional count o with a 0 replaced by r.
ZeroAs(o, r) == IF o = Some(0) THEN r ELSE o

\* The counts, the orbit data, the dirty flags and the tracked particle sets
\* of the simulation t.
Outcome(t) ==
  [numLevels |-> t.numLevels, numSubsets |-> t.numSubsets,
   numPointsSubset |-> t.numPointsSubset, orbitParams |-> t.orbitParams,
   orbit |-> t.orbit, hueValues |-> t.hueValues,
   particleSets |-> t.particleSets, scene |-> t.scene]

\* A count requested as 0 stays as it was.
ZeroKeepsCount ==
  /\ last.args.levelCount = Some(0) => numLevels = pre.numLevels
  /\ last.args.subsetCount = Some(0) => numSubsets = pre.numSubsets
  /\ last.args.pointsPerSubset = Some(0) => numPointsSubset = pre.numPointsSubset

\* C20 as stated: a count requested as 0 stays as it was, and the request
\* has the outcome of the same request with every 0 left out.
C20_ZeroIsAbsent ==
  ZeroRequested =>
    /\ ZeroKeepsCount
    /\ Outcome(this) =
         Outcome(setLevelSubsetCount(pre,
           [levelCount |-> ZeroAs(last.args.levelCount, Absent),
            subsetCount |-> ZeroAs(last.args.subsetCount, Absent),
            pointsPerSubset |-> ZeroAs(last.args.pointsPerSubset, Absent)]))

\* C20, amended: a count requested as 0 stays as it was; a level count of 0
\* has the outcome of an absent level count, while a subset count or a
\* points-per-subset of 0 has the outcome of a request for the current
\* value: the orbit is regenerated.
C20_ZeroIsCurrentValue ==
  ZeroRequested =>
    /\ ZeroKeepsCount
    /\ (last.args.subsetCount = Some(0) \/ last.args.pointsPerSubset = Some(0))
         => Regenerated
    /\ Outcome(this) =
         Outcome(setLevelSubsetCount(pre,
           [levelCount |-> ZeroAs(last.args.levelCount, Absent),
            subsetCount |-> ZeroAs(last.args.subsetCount, Some(pre.numSubsets)),
            pointsPerSubset |->
              ZeroAs(last.args.pointsPerSubset, Some(pre.numPointsSubset))]))

\* setLevelSubsetCount({subsetCount: 0}) kept the subset count and the
\* tracked sets and regenerated the orbit.
C20_Witness ==
  /\ last.op = "setLevelSubsetCount"
  /\ last.args = [levelCount |-> Absent, subsetCount |-> Some(0),
                  pointsPerSubset |-> Absent]
  /\ numSubsets = pre.numSubsets
  /\ Ids(this) = Ids(pre)
  /\ orbitParams # pre.orbitParams
  /\ Regenerated

\* The observed handler is an applySettings whose settings carry the
\* rotation speed 0, called while the simulation was rotating.
ZeroRotationRequested ==
  /\ last.op = "applySettings"
  /\ last.args.rotationSpeed = Some(0)
  /\ pre.rotationSpeed # 0

\* C21 as stated: applySettings with rotationSpeed 0 leaves the rotation
\* speed at its prior value.
C21_ZeroRotationIgnored ==
  ZeroRotationRequested => rotationSpeed = pre.rotationSpeed

\* C21, amended: applySettings stores every rotation speed its settings
\* carry, 0 included, and leaves the rotation speed alone only when the
\* field is absent; it is the constructor that replaces a rotation speed of
\* 0 by the default.
C21_ZeroRotationApplied ==
  /\ last.op = "applySettings" =>
       rotationSpeed = IF Defined(last.args.rotationSpeed)
                         THEN last.args.rotationSpeed[1]
                         ELSE pre.rotationSpeed
  /\ Unobserved =>
       \A r \in RotationValues \cup {0} :
         applySettings(this, [NoSettings EXCEPT !.rotationSpeed = Some(r)])
           .rotationSpeed = r
  /\ \A t \in {newHopalong([NoSettings EXCEPT !.rotationSpeed = Some(0)])} :
       t.rotationSpeed = DEFAULT_ROTATION_SPEED

\* applySettings({rotationSpeed: 0}) stopped the rotation of a rotating
\* simulation.
C21_Witness ==
  /\ ZeroRotationRequested
  /\ rotationSpeed = 0

\* The particle set ps shows the staged data and hue of its subset, which
\* are those of the latest generation.
ShowsLatest(ps) ==
  /\ ps.mySubset + 1 \in DOMAIN orbit
  /\ ps.mySubset + 1 \in DOMAIN hueValues
  /\ ps.geometry = orbit[ps.mySubset + 1]
  /\ ps.color = hueValues[ps.mySubset + 1]
  /\ ps.geometry.gen = orbitParams

\* C22: in every state, whatever frame steps, timer regenerations and
\* configuration changes led to it, a tracked particle set whose dirty flag
\* is clear shows the geometry and the colour of the latest generation.
C22_CleanShowsLatest ==
  \A i \in DOMAIN particleSets :
    ~particleSets[i].needsUpdate => ShowsLatest(particleSets[i])

\* After regenerations and frames, a set that recycled in the latest frame is
\* clean and shows the latest data, next to a dirty set that still shows the
\* data of an earlier generation.
C22_Witness ==
  /\ last.op = "render"
  /\ frame > 1
  /\ \E i, j \in DOMAIN particleSets :
       /\ pre.particleSets[i].needsUpdate
       /\ ~particleSets[i].needsUpdate
       /\ ShowsLatest(particleSets[i])
       /\ particleSets[j].needsUpdate
       /\ ~ShowsLatest(particleSets[j])

\* The ids a particle set can have in the runs of the model.
LiveIds == 1..(MaxLevels * MaxSubsets + MaxRemoved)

Dirty(id) == id \in Ids(this) /\ SetOf(this, id).needsUpdate

\* The set id is where a recycling frame puts it, its flag clear, showing the
\* latest data.
Refreshed(id) ==
  /\ id \in Ids(this)
  /\ ~SetOf(this, id).needsUpdate
  /\ SetOf(this, id).z = 0 - (numLevels - 1) * LEVEL_DEPTH
  /\ ShowsLatest(SetOf(this, id))

\* C23: when frames keep being drawn (weak fairness of the frame step) and
\* speed stays above 0 with numLevels at least 1, every particle set whose
\* dirty flag is set is eventually recycled by a frame, with its flag cleared
\* and the latest data shown, or is no longer tracked: no set stays dirty
\* for ever.
C23_DirtyEventuallyRefreshed ==
  [](speed > 0 /\ numLevels >= 1) =>
    \A id \in LiveIds : Dirty(id) ~> (Refreshed(id) \/ id \notin Ids(this))

\* A frame has just recycled a set that the timer had made dirty: it is
\* clean again and shows the latest data.
C23_Witness ==
  /\ last.op = "render"
  /\ pre.speed > 0
  /\ \E id \in Ids(this) \cap Ids(pre) :
       /\ SetOf(pre, id).needsUpdate
       /\ Refreshed(id)

\* C24: in every state between handlers the staged orbit has exactly
\* numSubsets subsets, hueValues has exactly numSubsets entries and every
\* tracked particle set's subset index is below numSubsets, so no frame and
\* no creation of a particle set reads a subset or a hue that is missing.
C24_StagedDataComplete ==
  /\ Len(orbit) = numSubsets
  /\ Len(hueValues) = numSubsets
  /\ \A i \in DOMAIN particleSets :
       /\ particleSets[i].mySubset >= 0
       /\ particleSets[i].mySubset < numSubsets

\* setLevelSubsetCount has just lowered the number of subsets of a simulation
\* that has drawn frames, and sets are still tracked.
C24_Witness ==
  /\ last.op = "setLevelSubsetCount"
  /\ Len(pre.orbit) > numSubsets
  /\ pre.frame > 1
  /\ particleSets # << >>

\* C25: with numLevels at least 1, every tracked particle set's z is at most
\* the camera z, which is SCALE_FACTOR/2, in every state: right after the set
\* is created, after every frame and between frames.
C25_NeverInFrontOfCamera ==
  numLevels >= 1 =>
    /\ camera.z = SCALE_FACTOR \div 2
    /\ \A i \in DOMAIN particleSets : particleSets[i].z <= camera.z

\* A frame has just taken back a set that it had moved in front of the
\* camera, next to a set that a handler created after the first frame.
C25_Witness ==
  /\ last.op = "render"
  /\ numLevels >= 1
  /\ \E i, j \in DOMAIN particleSets :
       /\ pre.particleSets[i].z + pre.speed > camera.z
       /\ particleSets[i].z = 0 - (numLevels - 1) * LEVEL_DEPTH
       /\ particleSets[j].particles > MaxLevels * MaxSubsets

\* The pointer events: mouse-move, touch-start and touch-move.
PointerEvent ==
  last.op \in {"onDocumentMouseMove", "onDocumentTouchStart", "onDocumentTouchMove"}

\* The camera and the pointer of t are on the axis, the pointer is locked and
\* no controller is connected.
Centred(t) ==
  /\ t.mouseLocked
  /\ ~t.controllerConnected
  /\ t.camera.x = 0 /\ t.camera.y = 0
  /\ t.mouseX = 0 /\ t.mouseY = 0

\* The pointer event moves a pointer that is not locked.
MovesPointer ==
  \/ /\ last.op = "onDocumentMouseMove"
     /\ last.args.clientX - pre.windowHalfX # pre.mouseX
  \/ /\ last.op \in {"onDocumentTouchStart", "onDocumentTouchMove"}
     /\ Len(last.args.touches) = 1
     /\ last.args.touches[1].pageX - pre.windowHalfX # pre.mouseX

\* C26: while mouseLocked is true a mouse-move, touch-start or touch-move
\* event leaves mouseX and mouseY as they were; recenterCamera puts camera x,
\* camera y, mouseX and mouseY at 0 and locks the pointer; and with no
\* controller connected a frame or a pointer event that starts with the
\* pointer locked and camera and pointer at 0 leaves them so, which keeps the
\* camera at x = 0, y = 0 until the lock is released.
C26_LockedCameraStays ==
  /\ PointerEvent /\ pre.mouseLocked =>
       mouseX = pre.mouseX /\ mouseY = pre.mouseY /\ mouseLocked
  /\ last.op = "recenterCamera" =>
       /\ camera.x = 0 /\ camera.y = 0
       /\ mouseX = 0 /\ mouseY = 0
       /\ mouseLocked
  /\ (PointerEvent \/ last.op = "render") /\ Centred(pre) => Centred(this)

\* After frames, a touch of one finger away from the axis came while camera
\* and pointer were locked on the axis.
C26_Witness ==
  /\ last.op = "onDocumentTouchMove"
  /\ MovesPointer
  /\ Centred(pre)
  /\ pre.frame > 1
  /\ Centred(this)

\* A controllerLoop callback that ran with the controller disconnected
\* applied no movement, fired no settings change and requested no callback.
DisconnectedLoopEnds ==
  last.op = "controllerLoop" /\ ~pre.controllerConnected =>
    /\ controllerRequests = pre.controllerRequests - 1
    /\ speed = pre.speed /\ rotationSpeed = pre.rotationSpeed
    /\ mouseX = pre.mouseX /\ mouseY = pre.mouseY
    /\ settingsUpdates = << >>

\* C27: whatever gamepad connect events, disconnect events and callbacks
\* happen, at most one controllerLoop callback is pending at any time, and a
\* callback that runs after a disconnect with no later connect applies no
\* movement.
C27_OnePollingLoop ==
  /\ controllerRequests <= 1
  /\ DisconnectedLoopEnds

\* The second half of C27 alone, which holds.
C27_DisconnectedLoopEnds == DisconnectedLoopEnds

\* Two controllerLoop callbacks were pending, one of them ran with a gamepad,
\* applied its movement and asked for its next callback: two polling loops
\* go on.
C27_Witness ==
  /\ last.op = "controllerLoop"
  /\ Defined(last.args)
  /\ pre.controllerConnected
  /\ pre.controllerRequests = 2
  /\ controllerRequests = 2
  /\ settingsUpdates # << >>

====
